----------------------------- MODULE AddressLease -----------------------------
(***************************************************************************)
(* What the sharing of RTSP servers promises                                 *)
(* (src/server/internal/media/rtsp_server.go): an address is served as long  *)
(* as anybody uses it, and closed only when nobody does.                     *)
(***************************************************************************)
CONSTANTS Addrs, Users

VARIABLES uses,    \* who uses an address
          served   \* addresses at which a server listens

Init == uses = [a \in Addrs |-> {}] /\ served = {}

Acquire(a, u) ==
  /\ uses' = [uses EXCEPT ![a] = @ \cup {u}]
  /\ served' = served \cup {a}

Release(a, u) ==
  /\ u \in uses[a]
  /\ uses' = [uses EXCEPT ![a] = @ \ {u}]
  /\ UNCHANGED served

Close(a) ==
  /\ uses[a] = {} /\ a \in served
  /\ served' = served \ {a}
  /\ UNCHANGED uses

Next == \E a \in Addrs : \/ Close(a)
                         \/ \E u \in Users : Acquire(a, u) \/ Release(a, u)

Spec == Init /\ [][Next]_<<uses, served>>
=============================================================================
