----------------------------- MODULE LaunchSession -----------------------------
(***************************************************************************)
(* How instances of the product find each other (cogni_demo/server.py,     *)
(* main): a session document on disk names the server that listens on the  *)
(* fixed port.  A launcher reads it, pings the port, reuses the session or *)
(* clears the document, builds its components, binds the port, publishes   *)
(* its own document and serves; when it ends it takes the document away.   *)
(*                                                                         *)
(* A launcher is one process; metadata is the launcher it names.  Binding  *)
(* is exclusive.  A server that listens but does not serve yet, or no more,*)
(* does not answer; one that serves answers, in time if punctual.          *)
(***************************************************************************)
EXTENDS Naturals

CONSTANTS Launchers, Retries,
          Old,          \* metadata of an instance of an earlier time
          Malformed,    \* what is in a document that is not valid
          Absent

ASSUME LaunchAssumption ==
    /\ Retries \in Nat \ {0}
    /\ Launchers \cap {Old, Malformed, Absent} = {}

VARIABLES document,     \* the file
          listener,     \* who has bound the port
          pc, found,    \* of each launcher: where it is, what it read
          tries,        \* and how often it still looks for whoever has the port
          controls,     \* launchers whose components run
          seen,         \* history: who answered at the latest look of each
          punctual

launch_vars == <<document, listener, pc, found, tries, controls, seen, punctual>>

Ended == {"reused", "failed", "gone", "dead"}
Listening == {"publish", "restrict", "ready", "serve", "closing", "abort"}

LaunchInit ==
    /\ document \in {Absent, Old, Malformed}
    /\ listener = Absent
    /\ pc = [l \in Launchers |-> "off"]
    /\ found = [l \in Launchers |-> Absent]
    /\ tries = [l \in Launchers |-> 0]
    /\ controls = {}
    /\ seen = [l \in Launchers |-> Absent]
    /\ punctual \in BOOLEAN

Goto(l, point) == pc' = [pc EXCEPT ![l] = point]
Answerer == IF listener # Absent /\ pc[listener] = "serve" THEN listener ELSE Absent

(* Malformed data is stale. *)
Metadata == IF document = Malformed THEN Absent ELSE document

Read(l) ==
    /\ found' = [found EXCEPT ![l] = Metadata]
    /\ seen' = [seen EXCEPT ![l] = Answerer]

(* The marker does not say whose server answers. *)
Pings(l, answered) ==
    /\ answered => Answerer # Absent
    /\ ~answered => Answerer = Absent \/ ~punctual
    /\ seen' = [seen EXCEPT ![l] = Answerer]

(* The system may refuse to remove a file that is open elsewhere. *)
Unlink == document' \in {document, Absent}

Launch(l) ==
    /\ pc[l] = "off"
    /\ Read(l)
    /\ Goto(l, IF Metadata = Absent THEN "clear" ELSE "ping")
    /\ UNCHANGED <<document, listener, tries, controls, punctual>>

Ping(l) ==
    /\ pc[l] = "ping"
    /\ \E answered \in BOOLEAN :
         Pings(l, answered) /\ Goto(l, IF answered THEN "reused" ELSE "clear")
    /\ UNCHANGED <<document, listener, found, tries, controls, punctual>>

(* Whatever the document says by now. *)
Clear(l) ==
    /\ pc[l] = "clear"
    /\ Unlink
    /\ Goto(l, "build")
    /\ UNCHANGED <<listener, found, tries, controls, seen, punctual>>

Build(l) ==
    /\ pc[l] = "build"
    /\ \/ Goto(l, "bind") /\ controls' = controls \cup {l}
       \/ Goto(l, "failed") /\ UNCHANGED controls
    /\ UNCHANGED <<document, listener, found, tries, seen, punctual>>

Bind(l) ==
    /\ pc[l] = "bind" /\ listener = Absent
    /\ listener' = l
    /\ Goto(l, "publish")
    /\ UNCHANGED <<document, found, tries, controls, seen, punctual>>

BindRefused(l) ==
    /\ pc[l] = "bind" /\ listener # Absent
    /\ tries' = [tries EXCEPT ![l] = Retries]
    /\ Goto(l, "wait")
    /\ UNCHANGED <<document, listener, found, controls, seen, punctual>>

(* Anything but an OSError is not waited for. *)
BindFails(l) ==
    /\ pc[l] = "bind"
    /\ controls' = controls \ {l}
    /\ Goto(l, "failed")
    /\ UNCHANGED <<document, listener, found, tries, seen, punctual>>

(* Every tenth of a second, for a second. *)
LookAgain(l) ==
    /\ pc[l] = "wait" /\ tries[l] > 0
    /\ tries' = [tries EXCEPT ![l] = @ - 1]
    /\ Read(l)
    /\ Goto(l, IF Metadata = Absent THEN "wait" ELSE "again")
    /\ UNCHANGED <<document, listener, controls, punctual>>

PingAgain(l) ==
    /\ pc[l] = "again"
    /\ \E answered \in BOOLEAN :
         /\ Pings(l, answered)
         /\ Goto(l, IF answered THEN "reused" ELSE "wait")
         /\ controls' = IF answered THEN controls \ {l} ELSE controls
    /\ UNCHANGED <<document, listener, found, tries, punctual>>

GiveUp_LeavesControls(l) ==
    /\ pc[l] = "wait" /\ tries[l] = 0
    /\ Goto(l, "failed")
    /\ UNCHANGED <<document, listener, found, tries, controls, seen, punctual>>

GiveUp(l) ==
    /\ pc[l] = "wait" /\ tries[l] = 0
    /\ controls' = controls \ {l}
    /\ Goto(l, "failed")
    /\ UNCHANGED <<document, listener, found, tries, seen, punctual>>

Publish_Carelessly(l) ==
    /\ pc[l] = "publish"
    /\ \/ document' = l /\ Goto(l, "restrict")
       \/ UNCHANGED document /\ Goto(l, "ready")
    /\ UNCHANGED <<listener, found, tries, controls, seen, punctual>>

(* The replacement of the file, or an error before it. *)
Publish(l) ==
    /\ pc[l] = "publish"
    /\ \/ document' = l /\ Goto(l, "restrict")
       \/ UNCHANGED document /\ Goto(l, "abort")
    /\ UNCHANGED <<listener, found, tries, controls, seen, punctual>>

(* Its rights; when they cannot be set the file goes. *)
RestrictRights(l) ==
    /\ pc[l] = "restrict"
    /\ \/ Goto(l, "ready") /\ UNCHANGED document
       \/ Unlink /\ Goto(l, "abort")
    /\ UNCHANGED <<listener, found, tries, controls, seen, punctual>>

ServeForever(l) ==
    /\ pc[l] = "ready"
    /\ Goto(l, "serve")
    /\ UNCHANGED <<document, listener, found, tries, controls, seen, punctual>>

(* The watchdog misses its polls, a request, or Ctrl-C. *)
End(l) ==
    /\ pc[l] = "serve"
    /\ Goto(l, "closing")
    /\ UNCHANGED <<document, listener, found, tries, controls, seen, punctual>>

(* server_close: the components first, then the socket.  A stop thread that *)
(* is still at the components keeps them: shutdown_components returns early. *)
Close(l) ==
    /\ pc[l] \in {"closing", "abort"}
    /\ listener' = Absent
    /\ \/ controls' = controls \ {l}
       \/ pc[l] = "closing" /\ UNCHANGED controls
    /\ Goto(l, IF pc[l] = "closing" THEN "check" ELSE "failed")
    /\ UNCHANGED <<document, found, tries, seen, punctual>>

(* main returns: daemon threads and what they still had end with it. *)
Exit(l) ==
    /\ Goto(l, "gone")
    /\ controls' = controls \ {l}

Check_Anybodys(l) ==
    /\ pc[l] = "check"
    /\ Read(l)
    /\ IF Metadata # Absent THEN Goto(l, "remove") /\ UNCHANGED controls ELSE Exit(l)
    /\ UNCHANGED <<document, listener, tries, punctual>>

(* expected = metadata *)
Check(l) ==
    /\ pc[l] = "check"
    /\ Read(l)
    /\ IF Metadata = l THEN Goto(l, "remove") /\ UNCHANGED controls ELSE Exit(l)
    /\ UNCHANGED <<document, listener, tries, punctual>>

Remove(l) ==
    /\ pc[l] = "remove"
    /\ Unlink
    /\ Exit(l)
    /\ UNCHANGED <<listener, found, tries, seen, punctual>>

Die(l) ==
    /\ pc[l] \notin Ended \cup {"off"}
    /\ listener' = IF listener = l THEN Absent ELSE listener
    /\ controls' = controls \ {l}
    /\ Goto(l, "dead")
    /\ UNCHANGED <<document, found, tries, seen, punctual>>

LaunchNext == \E l \in Launchers :
    \/ Launch(l) \/ Ping(l) \/ Clear(l) \/ Build(l) \/ Bind(l) \/ BindRefused(l)
    \/ BindFails(l) \/ LookAgain(l) \/ PingAgain(l) \/ GiveUp(l) \/ Publish(l) \/ RestrictRights(l)
    \/ ServeForever(l) \/ End(l) \/ Close(l) \/ Check(l) \/ Remove(l) \/ Die(l)

LaunchSpec == LaunchInit /\ [][LaunchNext]_launch_vars

-----------------------------------------------------------------------------
(* Properties                                                              *)

LaunchTypeOK ==
    /\ document \in Launchers \cup {Absent, Old, Malformed}
    /\ listener \in Launchers \cup {Absent}
    /\ pc \in [Launchers -> Listening \cup Ended \cup
                 {"off", "ping", "clear", "build", "bind", "wait", "again", "check", "remove"}]
    /\ found \in [Launchers -> Launchers \cup {Absent, Old}]
    /\ tries \in [Launchers -> 0 .. Retries]
    /\ controls \subseteq Launchers
    /\ seen \in [Launchers -> Launchers \cup {Absent}]
    /\ punctual \in BOOLEAN

(* The document names nobody who does not listen yet: either its launcher    *)
(* has the port, or it is through with it; an instance that has ended,       *)
(* however far it came, leaves no components behind.                         *)
NamesAServer ==
    document \in Launchers =>
        \/ listener = document
        \/ pc[document] \in {"check", "remove"} \cup (Ended \ {"reused"})
NothingLeft == \A l \in controls : pc[l] \notin Ended

LaunchSound == LaunchTypeOK /\ NamesAServer /\ NothingLeft

(* Whoever decides to reuse a session has the token of the server that       *)
(* answered, although the ping does not ask for it, if the document is still *)
(* the one that was read.                                                    *)
ReusedIsTheServer ==
    [][\A l \in Launchers :
         pc[l] # "reused" /\ pc'[l] = "reused" /\ Metadata = found[l]
             => listener = found[l]]_launch_vars

(* "never delete a replacement session": the document of a server that       *)
(* serves is removed by nobody but a launcher whose last look at the file or *)
(* the port was before that server served: main and server.py:364 remove     *)
(* what they have not read, or not read again.                               *)
OnlyTheUnawareRemove ==
    [][punctual /\ Answerer # Absent /\ document = Answerer /\ document' # document
         => \E l \in Launchers : /\ pc[l] \in {"clear", "remove"} /\ pc'[l] # pc[l]
                                 /\ seen[l] # Answerer]_launch_vars
=============================================================================
