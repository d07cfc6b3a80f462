---------------------------- MODULE PipeLifecycle ----------------------------
(***************************************************************************)
(* What the rest of the server sees of a pipe: a life cycle and whether the  *)
(* source still holds the pipe's callback.  MediaHub keeps exactly this much *)
(* of each pipe object in pstate; FramePipe implements it.                   *)
(*                                                                           *)
(* A pipe is bound once.  Only Stop of a started pipe releases the callback, *)
(* and it does so once and for all: a pipe started again after that          *)
(* ("revived") has a writer and will never be given a frame again.           *)
(***************************************************************************)
VARIABLES life,   \* "bound", "running", "stopped" or "revived"
          held    \* the source holds the callback

vars == <<life, held>>

TypeOK == /\ life \in {"bound", "running", "stopped", "revived"}
          /\ held \in BOOLEAN

Init == life = "bound" /\ held = TRUE

Start == /\ \/ life = "bound" /\ life' = "running"
            \/ life = "stopped" /\ life' = "revived"
         /\ UNCHANGED held

Stop == /\ life \in {"running", "revived"}
        /\ life' = "stopped"
        /\ UNCHANGED held

Unbind == /\ life \in {"stopped", "revived"} /\ held
          /\ held' = FALSE
          /\ UNCHANGED life

Next == Start \/ Stop \/ Unbind

Spec == Init /\ [][Next]_vars
=============================================================================
