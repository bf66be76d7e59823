-------------------------------- MODULE Layout --------------------------------
(* The treemap of one folder (scanner/treemap/{mod,layout}.rs): which of its *)
(* children get a tile of their own, and where squarify puts the tiles.  A   *)
(* coordinate is an exact fraction <<n, d>>; the rounding of f64 and f32 is  *)
(* left out.                                                                 *)
EXTENDS Files, Integers

CONSTANTS
  MaxLaidOut,  \* max_laid_out, after the clamp
  Fraction     \* 1 / MIN_LAID_OUT_FRACTION: 400 in the program

(* What is laid out is a folder.                                             *)
ASSUME LayoutAssumption ==
  /\ MaxLaidOut \in Nat \ {0} /\ Fraction \in Nat \ {0}
  /\ home \in DOMAIN Meta => Meta[home].type # "File"
-----------------------------------------------------------------------------
(* Fractions                                                                 *)
gcd[p \in Nat \X Nat] == IF p[2] = 0 THEN p[1] ELSE gcd[<<p[2], p[1] % p[2]>>]
Frac(n, d) == IF n = 0 THEN <<0, 1>> ELSE LET g == gcd[<<n, d>>] IN <<n \div g, d \div g>>

Times(a, b) == Frac(a[1] * b[1], a[2] * b[2])
Over(a, b)  == Frac(a[1] * b[2], a[2] * b[1])
Plus(a, b)  == Frac(a[1] * b[2] + b[1] * a[2], a[2] * b[2])
Leq(a, b)   == a[1] * b[2] <= b[1] * a[2]
Minus(a, b) == IF Leq(a, b) THEN <<0, 1>> ELSE Frac(a[1] * b[2] - b[1] * a[2], a[2] * b[2])

Total(fracs) == FoldSeq(Plus, <<0, 1>>, fracs)
Greater(a, b) == IF Leq(a, b) THEN b ELSE a
Smaller(a, b) == IF Leq(a, b) THEN a ELSE b
-----------------------------------------------------------------------------
(* layout.rs                                                                 *)
Unit == [x |-> <<0, 1>>, y |-> <<0, 1>>, w |-> <<1, 1>>, h |-> <<1, 1>>]

shortest_side(r) == IF Leq(r.w, r.h) THEN r.w ELSE r.h

(* The worst aspect ratio of a row of areas along a side of length w: the    *)
(* largest's or the smallest's.                                              *)
RatioOf(w2, s2, largest, smallest) == Greater(Over(Times(w2, largest), s2), Over(s2, Times(w2, smallest)))

worst_ratio(areas, w) ==
  RatioOf(Times(w, w), Times(Total(areas), Total(areas)),
          FoldSeq(Greater, areas[1], areas), FoldSeq(Smaller, areas[1], areas))

Areas(row, area) == [n \in DOMAIN row |-> area[row[n]]]

(* A tile of a row this thick, at an offset along the row.                   *)
TileIn(free, thick, offset, length) ==
  IF Leq(free.h, free.w)
  THEN [x |-> free.x, y |-> Plus(free.y, offset), w |-> thick, h |-> length]
  ELSE [x |-> Plus(free.x, offset), y |-> free.y, w |-> length, h |-> thick]

Shrunk(free, thick) ==
  IF Leq(free.h, free.w) THEN [free EXCEPT !.x = Plus(@, thick), !.w = Minus(@, thick)]
                         ELSE [free EXCEPT !.y = Plus(@, thick), !.h = Minus(@, thick)]

TilesOf(free, thick, areas) ==
  [n \in DOMAIN areas |->
     TileIn(free, thick, Over(Total(SubSeq(areas, 1, n - 1)), thick), Over(areas[n], thick))]

PlaceAlong(st, thick, tiles) ==
  [free |-> Shrunk(st.free, thick), row |-> <<>>,
   out |-> [i \in DOMAIN st.out |-> IF i \in ToSet(st.row)
                                    THEN tiles[CHOOSE n \in DOMAIN st.row : st.row[n] = i] ELSE st.out[i]]]

PlaceThick(st, thick, areas) == PlaceAlong(st, thick, TilesOf(st.free, thick, areas))

(* The row becomes a column along the shorter side; the rest stays free.     *)
place_row(st, area) ==
  PlaceThick(st, Over(Total(Areas(st.row, area)), shortest_side(st.free)), Areas(st.row, area))

(* Heaviest first, equal ones as they came.                                  *)
Sorted(weights) ==
  sort_by([i \in DOMAIN weights |-> i],
          {p \in (DOMAIN weights) \X (DOMAIN weights) : weights[p[1]] > weights[p[2]]})

Fits(row, i, area, side) ==
  row = <<>> \/ Leq(worst_ratio(Areas(Append(row, i), area), side), worst_ratio(Areas(row, area), side))

Begin(st, i) == IF shortest_side(st.free)[1] = 0 THEN st ELSE [st EXCEPT !.row = <<i>>]

(* An item joins the row unless that makes the row's worst tile worse; then  *)
(* the row is placed and the item begins the next one.  Nothing without      *)
(* weight, and nothing on a free rectangle that is used up, is placed.       *)
Offer(st, i, area) ==
  CASE area[i][1] = 0 \/ shortest_side(st.free)[1] = 0 -> st
    [] OTHER -> IF Fits(st.row, i, area, shortest_side(st.free))
                THEN [st EXCEPT !.row = Append(@, i)] ELSE Begin(place_row(st, area), i)

Unplaced(weights) ==
  [free |-> Unit, row |-> <<>>,
   out |-> [i \in DOMAIN weights |-> [Unit EXCEPT !.w = <<0, 1>>, !.h = <<0, 1>>]]]

(* Mutant: the last row is never placed.                                     *)
place_rest_drops(st, area) == st.out

(* The last row, once all are offered.                                       *)
place_rest(st, area) == IF st.row = <<>> THEN st.out ELSE place_row(st, area).out

Packed(weights, area) ==
  place_rest(FoldLeft(LAMBDA st, i : Offer(st, i, area), Unplaced(weights), Sorted(weights)), area)

SumOf(weights) == FoldSeq(LAMBDA a, b : a + b, 0, weights)

squarify(weights) ==
  IF SumOf(weights) = 0 THEN Unplaced(weights).out
  ELSE Packed(weights, [i \in DOMAIN weights |-> Frac(weights[i], SumOf(weights))])
-----------------------------------------------------------------------------
(* tree.rs and mod.rs                                                        *)
Child(files, n) == [name |-> n, bytes |-> BytesOf(files)]

(* Children without files are not in the tree; the heaviest come first.      *)
children(disk, root) ==
  LET all == {Child(FilesBelow(disk, root \o <<n>>), n) :
                n \in {m \in Names(disk, root) : FilesBelow(disk, root \o <<m>>) # {}}}
  IN SortedBy(all, {p \in all \X all : p[1].bytes > p[2].bytes})

(* One of its own, of so many bytes.                                         *)
Laid(i, child, tree) == i <= MaxLaidOut /\ child.bytes >= 1 /\ child.bytes * Fraction >= tree

Bytes(list) == [i \in DOMAIN list |-> list[i].bytes]

(* Small children, and those past the budget, share one tile of their own.   *)
Slots(list, visible) ==
  SubSeq(list, 1, visible)
  \o (IF SumOf(SubSeq(Bytes(list), visible + 1, Len(list))) > 0
      THEN <<[name |-> "__other__", bytes |-> SumOf(SubSeq(Bytes(list), visible + 1, Len(list)))]>> ELSE <<>>)

Placed(slots, rects) ==
  [i \in DOMAIN slots |-> [name |-> slots[i].name, bytes |-> slots[i].bytes, rect |-> rects[i]]]

TilesFor(slots) == Placed(slots, squarify(Bytes(slots)))

LayOut(list, tree) ==
  IF tree = 0 THEN <<>>
  ELSE TilesFor(Slots(list, Cardinality({i \in DOMAIN list : Laid(i, list[i], tree)})))

lay_out_children(disk, root) == LayOut(children(disk, root), BytesOf(FilesBelow(disk, root)))
-----------------------------------------------------------------------------
Apart(r, s) ==
  \/ Leq(Plus(r.x, r.w), s.x) \/ Leq(Plus(s.x, s.w), r.x)
  \/ Leq(Plus(r.y, r.h), s.y) \/ Leq(Plus(s.y, s.h), r.y)

Inside(r) == Leq(Plus(r.x, r.w), <<1, 1>>) /\ Leq(Plus(r.y, r.h), <<1, 1>>)

(* The contract at layout.rs:55-61, of tiles that share out this many bytes: *)
(* inside the bounds, apart from each other, and as large as their weights.  *)
Tiles(tiles, bytes) ==
  /\ Len(tiles) <= MaxLaidOut + 1
  /\ \A i \in DOMAIN tiles : Inside(tiles[i].rect) /\ Times(tiles[i].rect.w, tiles[i].rect.h) = Frac(tiles[i].bytes, bytes)
  /\ \A i, j \in DOMAIN tiles : i # j => Apart(tiles[i].rect, tiles[j].rect)
  /\ SumOf(Bytes(tiles)) = bytes
=============================================================================
