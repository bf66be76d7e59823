------------------------------- MODULE MCStartup -------------------------------
(* On linux an autostart file and a unit, on mac two agents with one label   *)
(* or one agent, on windows a shortcut.                                      *)
EXTENDS Startup

MCEntries == [linux |-> {"d", "u"}, mac |-> {"a", "b"}, one |-> {"a"}, windows |-> {"s"}]
MCSource  == [d |-> "desktop", u |-> "unit", a |-> "plist", b |-> "plist", s |-> "shortcut"]
MCId      == [d |-> "d", u |-> "u", a |-> "label", b |-> "label", s |-> "s"]

Desktop(header, application, hidden, gnome) ==
  [header |-> header, application |-> application, hidden |-> hidden, gnome |-> gnome, body |-> 0]

Plist(keys) == [keys |-> keys, body |-> 0]
Key(top, value) == [top |-> top, canonical |-> TRUE, value |-> value]

MCVersions == [
  desktop  |-> {Desktop(TRUE, TRUE, "absent", "false"), Desktop(TRUE, TRUE, "true", "true"),
                Desktop(TRUE, FALSE, "absent", "absent"), Desktop(FALSE, TRUE, "absent", "absent")},
  unit     |-> {[body |-> 0]},
  plist    |-> {Plist(<<>>), Plist(<<Key(TRUE, TRUE)>>), Plist(<<Key(FALSE, TRUE), Key(TRUE, FALSE)>>)},
  shortcut |-> {[body |-> 0]}]
=============================================================================
