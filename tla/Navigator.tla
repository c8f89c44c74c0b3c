------------------------------ MODULE Navigator ------------------------------
(***************************************************************************)
(* The part of Flutter's Navigator that the app relies on.  The framework   *)
(* is not in this repository: these operators state what the app's calls    *)
(* to Navigator.push, pushReplacement and the system back button do to the  *)
(* history of one Navigator.                                                *)
(*                                                                          *)
(* A history is a SET of entries, records with at least the fields id and   *)
(* phase.  Ids are handed out in increasing order, so the entry with the    *)
(* greater id lies above the one with the smaller id.                       *)
(***************************************************************************)
EXTENDS Naturals

\* pushing: entering, its transition is running     idle: fully on screen
\* popping: leaving by pop, its transition is running
\* removing: replaced, kept mounted until an entry above it is idle
Phases == {"pushing", "idle", "popping", "removing"}

InPhase(entry, phase) == [entry EXCEPT !.phase = phase]

Present(history) == {e \in history : e.phase \in {"pushing", "idle"}}

Above(history, entry) == {e \in history : e.id > entry.id}

IsTop(history, entry) ==
    /\ entry \in Present(history)
    /\ \A e \in Present(history) : e.id <= entry.id

\* Mutant: a replaced entry waits for an idle one even when none is left above.
HeldForGood(history, entry) ==
    \A e \in Above(history, entry) : e.phase # "idle"

\* A replaced entry is held as long as something above it is still there and
\* nothing above it has finished its entrance.
Held(history, entry) ==
    /\ \E e \in Above(history, entry) : e.phase # "removing"
    /\ \A e \in Above(history, entry) : e.phase # "idle"

\* Every change of the history ends by disposing the replaced entries that
\* are no longer held; disposing an entry unmounts its widgets.
Flush(history) ==
    {e \in history : e.phase = "removing" => Held(history, e)}

Push(history, entry) == Flush(history \cup {entry})

PushReplacement(history, entry) ==
    Flush({IF IsTop(history, e) THEN InPhase(e, "removing") ELSE e :
             e \in history} \cup {entry})

Pop(history, entry) ==
    Flush((history \ {entry}) \cup {InPhase(entry, "popping")})

\* The entrance transition of entry completes.
Entered(history, entry) ==
    Flush((history \ {entry}) \cup {InPhase(entry, "idle")})

\* The exit transition of entry completes and it is disposed.
Exited(history, entry) == Flush(history \ {entry})

\* The State objects of an entry's page are mounted.
Mounted(history, id) == \E e \in history : e.id = id
==============================================================================
