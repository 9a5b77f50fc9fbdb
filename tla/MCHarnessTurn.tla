--------------------------- MODULE MCHarnessTurn ---------------------------
(* TLC instances of HarnessTurn: two posts, of one to three messages; a      *)
(* catalogue with the affordance, and one without it that has a tool of    *)
(* the name a transport without dots writes the affordance by.             *)
EXTENDS HarnessTurn, TLC

MCPortable ==
    ("files.read" :> "files_read") @@ ("sharedos.escalate" :> "sharedos_escalate")
      @@ ("sharedos_escalate" :> "sharedos_escalate")

other(method) == [method |-> method]
call(name) == [method |-> "call", name |-> name]

MCBodies ==
    {<<call("files.read")>>,
     <<call("sharedos.escalate"), call("files.read")>>,
     <<other("notification"), call("files.read"), call("sharedos_escalate")>>,
     <<other("list"), other("unservable"), call("sharedos_escalate")>>}

MCCatalogues ==
    {{"files.read", "sharedos.escalate"}, {"files.read", "sharedos_escalate"}}

=============================================================================
