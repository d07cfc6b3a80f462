-------------------------- MODULE RTSPServers_proofs --------------------------
(***************************************************************************)
(* Proofs about RTSPServers, for any sinks, addresses and sessions: servers  *)
(* are counted right, never closed under a user, and none is left over; what *)
(* is listed at a path is true, and the last sink configured there stays.    *)
(***************************************************************************)
EXTENDS RTSPServers, FiniteSetTheorems, TLAPS

(* What matters of a state here.                                              *)
leaseVars == <<made, listening, reg, refs, status, handler, holds, closing>>

Typed ==
  /\ made \in Nat /\ listening \subseteq 1 .. made
  /\ reg \in [Addrs -> 0 .. made] /\ refs \in [Addrs -> Nat]
  /\ status \in [Sinks -> {"stopped", "running", "error"}]
  /\ handler \in [Sinks -> 0 .. made] /\ closing \in [Sinks -> 0 .. made]
  /\ holds \in [Sinks -> {"free", "register", "unlist", "release", "close"}]

(* Where a sink is tells what it has: a handler while it runs and until Stop   *)
(* has been to its path, a server to close at the very end.                   *)
Phase(s) ==
  /\ holds[s] \in {"free", "register"} => (handler[s] # 0 <=> status[s] = "running")
  /\ holds[s] \in {"unlist", "release", "close"} => status[s] = "stopped"
  /\ holds[s] = "unlist" => handler[s] # 0
  /\ holds[s] \in {"release", "close"} => handler[s] = 0
  /\ closing[s] # 0 <=> holds[s] = "close"

(* Registered servers listen, each at one address.                            *)
Registered ==
  /\ \A s \in Sinks : handler[s] # 0 => handler[s] = reg[AddrOf[s]]
  /\ \A a \in Addrs : reg[a] # 0 => reg[a] \in listening
  /\ \A a, b \in Addrs : reg[a] # 0 /\ reg[a] = reg[b] => a = b

(* A server to be closed listens, and no other one is at its address: it is    *)
(* no longer registered, and one Stop is to close it.                         *)
Apart ==
  \A s \in Sinks : closing[s] # 0 =>
    /\ closing[s] \in listening /\ reg[AddrOf[s]] = 0
    /\ \A a \in Addrs : reg[a] # closing[s]
    /\ \A t \in Sinks \ {s} : closing[t] # closing[s] /\ (closing[t] = 0 \/ AddrOf[t] # AddrOf[s])

(* No other server listens.                                                   *)
Accounted ==
  \A k \in listening : (\E a \in Addrs : reg[a] = k) \/ (\E s \in Sinks : closing[s] = k)

LeaseInv ==
  /\ Typed /\ \A s \in Sinks : Phase(s)
  /\ Registered /\ Apart /\ Accounted /\ RefsCountUsers

-----------------------------------------------------------------------------
LEMMA UsersFinite ==
  ASSUME NEW a \in Addrs
  PROVE  IsFiniteSet(UsersOf(a)) /\ Cardinality(UsersOf(a)) \in Nat
<1>1. UsersOf(a) \in SUBSET Sinks /\ IsFiniteSet(Sinks)
  BY ServersAssumption DEF UsersOf
<1>2. IsFiniteSet(UsersOf(a))
  BY <1>1, FS_Subset
<1> QED
  BY <1>2, FS_CardinalityType

LEMMA InitLease == Init => LeaseInv
<1> SUFFICES ASSUME Init PROVE LeaseInv
  OBVIOUS
<1>1. Typed /\ (\A s \in Sinks : Phase(s))
  BY DEF Init, Typed, Phase
<1>2. Registered /\ Apart /\ Accounted
  BY ServersAssumption DEF Init, Registered, Apart, Accounted
<1>3. RefsCountUsers
  <2>1. \A a \in Addrs : UsersOf(a) = {} /\ refs[a] = 0 /\ reg[a] = 0
    BY DEF Init, UsersOf
  <2> QED
    BY <2>1, FS_EmptySet DEF RefsCountUsers
<1> QED
  BY <1>1, <1>2, <1>3 DEF LeaseInv

\* A sink may start only if it uses nothing.
LEMMA IdleSink ==
  ASSUME LeaseInv, NEW s \in Sinks, MayStart(s)
  PROVE  /\ handler[s] = 0 /\ closing[s] = 0 /\ holds[s] = "free"
         /\ AddrOf[s] \in Addrs /\ s \notin UsersOf(AddrOf[s])
  BY ServersAssumption DEF LeaseInv, Phase, MayStart, Free, UsersOf

\* One more user of the address of s, the other addresses as they were.
LEMMA JoinsUsers ==
  ASSUME LeaseInv, NEW s \in Sinks, MayStart(s), NEW k \in Nat, k # 0,
         handler' = [handler EXCEPT ![s] = k], holds' = holds
  PROVE  /\ UsersOf(AddrOf[s])' = UsersOf(AddrOf[s]) \cup {s}
         /\ Cardinality(UsersOf(AddrOf[s])') = Cardinality(UsersOf(AddrOf[s])) + 1
         /\ \A a \in Addrs \ {AddrOf[s]} : UsersOf(a)' = UsersOf(a)
<1>1. handler'[s] = k /\ \A t \in Sinks \ {s} : handler'[t] = handler[t]
  BY DEF LeaseInv, Typed
<1>2. UsersOf(AddrOf[s])' = UsersOf(AddrOf[s]) \cup {s}
  BY <1>1 DEF UsersOf
<1>3. \A a \in Addrs \ {AddrOf[s]} : UsersOf(a)' = UsersOf(a)
  BY <1>1 DEF UsersOf
<1> QED
  BY <1>2, <1>3, IdleSink, UsersFinite, FS_AddElement

\* One user less.
LEMMA LeavesUsers ==
  ASSUME LeaseInv, NEW s \in Sinks, NEW h, holds[s] = "release", h # "release",
         holds' = [holds EXCEPT ![s] = h], handler' = handler
  PROVE  /\ UsersOf(AddrOf[s])' = UsersOf(AddrOf[s]) \ {s}
         /\ Cardinality(UsersOf(AddrOf[s])') = refs[AddrOf[s]] - 1
         /\ refs[AddrOf[s]] > 0
         /\ \A a \in Addrs \ {AddrOf[s]} : UsersOf(a)' = UsersOf(a)
<1>1. /\ holds'[s] = h /\ (\A t \in Sinks \ {s} : holds'[t] = holds[t])
      /\ handler[s] = 0 /\ s \in UsersOf(AddrOf[s]) /\ AddrOf[s] \in Addrs
  BY ServersAssumption DEF LeaseInv, Typed, Phase, UsersOf
<1>2. UsersOf(AddrOf[s])' = UsersOf(AddrOf[s]) \ {s}
  BY <1>1 DEF UsersOf
<1>3. \A a \in Addrs \ {AddrOf[s]} : UsersOf(a)' = UsersOf(a)
  BY <1>1 DEF UsersOf
<1>4. refs[AddrOf[s]] = Cardinality(UsersOf(AddrOf[s]))
  BY <1>1 DEF LeaseInv, RefsCountUsers
<1>5. IsFiniteSet(UsersOf(AddrOf[s])) /\ Cardinality(UsersOf(AddrOf[s])) \in Nat
  BY <1>1, UsersFinite
<1>6. Cardinality(UsersOf(AddrOf[s]) \ {s}) = Cardinality(UsersOf(AddrOf[s])) - 1
  BY <1>1, <1>5, FS_RemoveElement
<1>7. Cardinality(UsersOf(AddrOf[s])) # 0
  BY <1>1, <1>5, FS_EmptySet
<1> QED
  BY <1>2, <1>3, <1>4, <1>5, <1>6, <1>7

LEMMA StartSharedLease ==
  ASSUME LeaseInv, NEW s \in Sinks, StartShared(s)
  PROVE  LeaseInv'
<1> DEFINE a0 == AddrOf[s]
<1> USE DEF LeaseInv
<1>1. a0 \in Addrs /\ MayStart(s) /\ reg[a0] # 0 /\ reg[a0] \in 1 .. made /\ made \in Nat
  BY ServersAssumption DEF StartShared, Typed
<1>2. /\ handler' = [handler EXCEPT ![s] = reg[a0]] /\ status' = [status EXCEPT ![s] = "running"]
      /\ refs' = [refs EXCEPT ![a0] = @ + 1]
      /\ UNCHANGED <<made, listening, reg, holds, closing>>
  BY DEF StartShared, Running, Join
<1>3. Typed'
  BY <1>1, <1>2 DEF Typed
<1>4. \A t \in Sinks : Phase(t)'
  BY <1>1, <1>2, IdleSink DEF Phase, Typed
<1>5. Registered' /\ Apart' /\ Accounted'
  BY <1>1, <1>2 DEF Registered, Apart, Accounted, Typed
<1>6. RefsCountUsers'
  <2>1. /\ Cardinality(UsersOf(a0)') = Cardinality(UsersOf(a0)) + 1
        /\ \A a \in Addrs \ {a0} : UsersOf(a)' = UsersOf(a)
    <3>1. reg[a0] \in Nat /\ reg[a0] # 0 /\ holds' = holds
      BY <1>1, <1>2
    <3> HIDE DEF LeaseInv
    <3> QED
      BY <1>1, <1>2, <3>1, JoinsUsers
  <2>2. refs[a0] \in Nat /\ refs'[a0] = refs[a0] + 1 /\ \A a \in Addrs \ {a0} : refs'[a] = refs[a]
    BY <1>1, <1>2 DEF Typed
  <2> QED
    BY <1>1, <1>2, <2>1, <2>2 DEF RefsCountUsers
<1> QED
  BY <1>3, <1>4, <1>5, <1>6

LEMMA StartFirstLease ==
  ASSUME LeaseInv, NEW s \in Sinks, StartFirst(s)
  PROVE  LeaseInv'
<1> DEFINE a0 == AddrOf[s]
           k == made + 1
<1> USE DEF LeaseInv
<1>1. a0 \in Addrs /\ MayStart(s) /\ reg[a0] = 0 /\ made \in Nat /\ k \in Nat /\ k # 0
  BY ServersAssumption DEF StartFirst, Typed
<1>2. /\ made' = k /\ listening' = listening \cup {k}
      /\ reg' = [reg EXCEPT ![a0] = k] /\ refs' = [refs EXCEPT ![a0] = 1]
      /\ handler' = [handler EXCEPT ![s] = k] /\ status' = [status EXCEPT ![s] = "running"]
      /\ UNCHANGED <<holds, closing>>
  BY DEF StartFirst, Running
<1>3. Typed'
  <2>1. listening' \subseteq 1 .. k /\ reg' \in [Addrs -> 0 .. k] /\ refs' \in [Addrs -> Nat]
    BY <1>1, <1>2 DEF Typed
  <2>2. handler' \in [Sinks -> 0 .. k] /\ closing' \in [Sinks -> 0 .. k]
    BY <1>1, <1>2 DEF Typed
  <2> QED
    BY <1>1, <1>2, <2>1, <2>2 DEF Typed
<1>4. \A t \in Sinks : Phase(t)'
  BY <1>1, <1>2, IdleSink DEF Phase, Typed
<1>u. Cardinality(UsersOf(a0)) = 0 /\ UsersOf(a0) = {}
  BY <1>1, UsersFinite, FS_EmptySet DEF RefsCountUsers
<1>5. Registered'
  <2>1. \A t \in Sinks \ {s} : AddrOf[t] = a0 => handler[t] = 0
    BY <1>u DEF UsersOf
  <2>2. \A t \in Sinks : handler'[t] # 0 => handler'[t] = reg'[AddrOf[t]]
    BY <1>1, <1>2, <2>1, ServersAssumption DEF Registered, Typed
  <2>3. \A a \in Addrs : reg'[a] # 0 => reg'[a] \in listening'
    BY <1>1, <1>2 DEF Registered, Typed
  <2>4. \A a \in Addrs \ {a0} : reg'[a] # k
    BY <1>1, <1>2 DEF Typed
  <2>5. \A a, b \in Addrs : reg'[a] # 0 /\ reg'[a] = reg'[b] => a = b
    BY <1>1, <1>2, <2>4 DEF Registered, Typed
  <2> QED
    BY <2>2, <2>3, <2>5 DEF Registered
<1>6. Apart'
  <2>1. \A t \in Sinks : closing[t] # k
    BY <1>1 DEF Typed
  <2>2. \A t \in Sinks : closing[t] # 0 => AddrOf[t] # a0
    BY DEF StartFirst, Served, Apart
  <2>3. reg'[a0] = k /\ \A a \in Addrs \ {a0} : reg'[a] = reg[a]
    BY <1>1, <1>2 DEF Typed
  <2> QED
    BY <1>2, <2>1, <2>2, <2>3, ServersAssumption DEF Apart
<1>7. Accounted'
  BY <1>1, <1>2 DEF Accounted, Typed
<1>8. RefsCountUsers'
  <2>1. /\ Cardinality(UsersOf(a0)') = 1
        /\ \A a \in Addrs \ {a0} : UsersOf(a)' = UsersOf(a)
    <3>1. k \in Nat /\ k # 0 /\ holds' = holds /\ handler' = [handler EXCEPT ![s] = k]
      BY <1>1, <1>2
    <3> HIDE DEF LeaseInv, k
    <3>2. /\ Cardinality(UsersOf(a0)') = Cardinality(UsersOf(a0)) + 1
          /\ \A a \in Addrs \ {a0} : UsersOf(a)' = UsersOf(a)
      BY <1>1, <3>1, JoinsUsers
    <3> QED
      BY <1>u, <3>2
  <2>2. /\ refs'[a0] = 1 /\ reg'[a0] = k
        /\ \A a \in Addrs \ {a0} : refs'[a] = refs[a] /\ reg'[a] = reg[a]
    BY <1>1, <1>2 DEF Typed
  <2> QED
    BY <1>1, <2>1, <2>2 DEF RefsCountUsers
<1> QED
  BY <1>3, <1>4, <1>5, <1>6, <1>7, <1>8

\* Steps of a sink after which the address has the same users and servers.
LEMMA SameUsersLease ==
  ASSUME LeaseInv, Typed', UNCHANGED <<made, listening, reg, refs, closing>>,
         \A s \in Sinks : /\ Phase(s)'
                          /\ handler'[s] \in {0, handler[s]}
                          /\ (handler'[s] # 0 \/ holds'[s] = "release")
                               <=> (handler[s] # 0 \/ holds[s] = "release")
  PROVE  LeaseInv'
<1> USE DEF LeaseInv
<1>1. Registered' /\ Apart' /\ Accounted'
  BY DEF Registered, Apart, Accounted
<1>2. \A a \in Addrs : UsersOf(a)' = UsersOf(a)
  BY DEF UsersOf
<1>3. RefsCountUsers'
  BY <1>2 DEF RefsCountUsers
<1> QED
  BY <1>1, <1>3

LEMMA SinkLease ==
  ASSUME LeaseInv, NEW s \in Sinks,
         \/ StartFails(s) \/ Configure(s) \/ RegisterPath(s) \/ StopNow(s) \/ Unlist(s)
  PROVE  LeaseInv'
<1> USE DEF LeaseInv, managerVars, Free, MayStart
<1>1. UNCHANGED <<made, listening, reg, refs, closing>>
  BY DEF StartFails, Configure, RegisterPath, StopNow, Unlist
<1>2. CASE StartFails(s)
  <2>1. Typed'
    BY <1>1, <1>2 DEF StartFails, Typed
  <2>2. \A t \in Sinks : /\ Phase(t)' /\ handler'[t] = handler[t] /\ holds'[t] = holds[t]
    BY <1>1, <1>2 DEF StartFails, Typed, Phase
  <2> QED
    BY <1>1, <2>1, <2>2, SameUsersLease
<1>3. CASE Configure(s) \/ RegisterPath(s)
  <2>1. Typed'
    BY <1>1, <1>3 DEF Configure, RegisterPath, Typed
  <2>2. /\ UNCHANGED <<handler, status>>
        /\ holds[s] \in {"free", "register"} /\ holds'[s] \in {"free", "register"}
        /\ \A t \in Sinks \ {s} : holds'[t] = holds[t]
    BY <1>3 DEF Configure, RegisterPath, Typed
  <2>3. \A t \in Sinks : Phase(t)'
    BY <1>1, <2>2 DEF Phase
  <2> QED
    BY <1>1, <2>1, <2>2, <2>3, SameUsersLease
<1>4. CASE StopNow(s)
  <2>1. Typed'
    BY <1>1, <1>4 DEF StopNow, Typed
  <2>2. /\ handler' = handler /\ holds[s] = "free" /\ status'[s] = "stopped"
        /\ holds'[s] = IF handler[s] # 0 THEN "unlist" ELSE "free"
        /\ \A t \in Sinks \ {s} : holds'[t] = holds[t] /\ status'[t] = status[t]
    BY <1>4 DEF StopNow, Typed
  <2>3. \A t \in Sinks : Phase(t)'
    BY <1>1, <2>2 DEF Phase
  <2> QED
    BY <1>1, <2>1, <2>2, <2>3, SameUsersLease
<1>5. CASE Unlist(s)
  <2>1. Typed'
    BY <1>1, <1>5 DEF Unlist, Typed
  <2>2. /\ status' = status /\ holds[s] = "unlist" /\ holds'[s] = "release" /\ handler'[s] = 0
        /\ \A t \in Sinks \ {s} : holds'[t] = holds[t] /\ handler'[t] = handler[t]
    BY <1>5 DEF Unlist, Typed
  <2>3. \A t \in Sinks : Phase(t)'
    BY <1>1, <2>2 DEF Phase
  <2>4. handler[s] # 0
    BY <2>2 DEF Phase
  <2> QED
    BY <1>1, <2>1, <2>2, <2>3, <2>4, SameUsersLease
<1> QED
  BY <1>2, <1>3, <1>4, <1>5

LEMMA ReleaseSharedLease ==
  ASSUME LeaseInv, NEW s \in Sinks, ReleaseShared(s)
  PROVE  LeaseInv'
<1> DEFINE a0 == AddrOf[s]
<1> USE DEF LeaseInv
<1>1. a0 \in Addrs /\ holds[s] = "release" /\ refs[a0] \in Nat /\ refs[a0] - 1 > 0
  BY ServersAssumption DEF ReleaseShared, LastRef, Typed
<1>2. /\ refs' = [refs EXCEPT ![a0] = @ - 1] /\ holds' = [holds EXCEPT ![s] = "free"]
      /\ UNCHANGED <<made, listening, reg, status, handler, closing>>
  BY DEF ReleaseShared
<1>3. Typed'
  BY <1>1, <1>2 DEF Typed
<1>4. \A t \in Sinks : Phase(t)'
  BY <1>1, <1>2 DEF Phase, Typed
<1>5. Registered' /\ Apart' /\ Accounted'
  BY <1>2 DEF Registered, Apart, Accounted
<1>6. RefsCountUsers'
  <2>1. /\ Cardinality(UsersOf(a0)') = refs[a0] - 1
        /\ \A a \in Addrs \ {a0} : UsersOf(a)' = UsersOf(a)
    BY <1>1, <1>2, LeavesUsers
  <2>2. refs'[a0] = refs[a0] - 1 /\ \A a \in Addrs \ {a0} : refs'[a] = refs[a]
    BY <1>1, <1>2 DEF Typed
  <2> QED
    BY <1>1, <1>2, <2>1, <2>2 DEF RefsCountUsers
<1> QED
  BY <1>3, <1>4, <1>5, <1>6

LEMMA ReleaseLastLease ==
  ASSUME LeaseInv, NEW s \in Sinks, ReleaseLast(s)
  PROVE  LeaseInv'
<1> DEFINE a0 == AddrOf[s]
           h == IF reg[a0] # 0 THEN "close" ELSE "free"
<1> USE DEF LeaseInv
<1>1. a0 \in Addrs /\ holds[s] = "release" /\ refs[a0] \in Nat /\ ~(refs[a0] - 1 > 0)
  BY ServersAssumption DEF ReleaseLast, LastRef, Typed
<1>2. /\ refs' = [refs EXCEPT ![a0] = 0] /\ reg' = [reg EXCEPT ![a0] = 0]
      /\ closing' = [closing EXCEPT ![s] = reg[a0]] /\ holds' = [holds EXCEPT ![s] = h]
      /\ UNCHANGED <<made, listening, status, handler>>
  BY DEF ReleaseLast, Unregister
<1>3. /\ UsersOf(a0)' = UsersOf(a0) \ {s} /\ Cardinality(UsersOf(a0)') = refs[a0] - 1
      /\ refs[a0] > 0 /\ \A a \in Addrs \ {a0} : UsersOf(a)' = UsersOf(a)
  <2>1. h # "release" /\ holds' = [holds EXCEPT ![s] = h] /\ handler' = handler
    BY <1>2
  <2> HIDE DEF LeaseInv, h
  <2> QED
    BY <1>1, <2>1, LeavesUsers
<1>4. refs[a0] = 1 /\ reg[a0] # 0 /\ h = "close" /\ Cardinality(UsersOf(a0)') = 0
  BY <1>1, <1>3 DEF RefsCountUsers
<1>5. /\ reg[a0] \in 1 .. made /\ made \in Nat /\ reg'[a0] = 0 /\ refs'[a0] = 0
      /\ \A a \in Addrs \ {a0} : reg'[a] = reg[a] /\ refs'[a] = refs[a]
      /\ closing'[s] = reg[a0] /\ holds'[s] = "close"
      /\ \A t \in Sinks \ {s} : closing'[t] = closing[t] /\ holds'[t] = holds[t]
  BY <1>1, <1>2, <1>4 DEF Typed
<1>6. Typed'
  BY <1>1, <1>2, <1>4, <1>5 DEF Typed
<1>7. \A t \in Sinks : Phase(t)'
  BY <1>1, <1>2, <1>4, <1>5 DEF Phase
<1>8. Registered'
  <2>1. UsersOf(a0)' = {}
    <3>1. UsersOf(a0)' \in SUBSET UsersOf(a0) /\ IsFiniteSet(UsersOf(a0))
      BY <1>1, <1>3, UsersFinite
    <3> QED
      BY <1>4, <3>1, FS_Subset, FS_EmptySet
  <2>2. \A t \in Sinks : handler'[t] # 0 => AddrOf[t] \in Addrs \ {a0}
    BY <2>1, ServersAssumption DEF UsersOf
  <2> QED
    BY <1>2, <1>5, <2>2 DEF Registered
<1>9. Apart'
  <2>1. /\ closing'[s] \in listening' /\ reg'[AddrOf[s]] = 0
        /\ \A a \in Addrs : reg'[a] # closing'[s]
    BY <1>1, <1>2, <1>4, <1>5 DEF Registered
  <2>2. \A t \in Sinks \ {s} : closing[t] # reg[a0] /\ (closing[t] = 0 \/ AddrOf[t] # a0)
    BY <1>1, <1>4 DEF Apart
  <2>3. \A t \in Sinks \ {s} : closing'[t] # 0 =>
          /\ closing'[t] \in listening' /\ reg'[AddrOf[t]] = 0
          /\ \A a \in Addrs : reg'[a] # closing'[t]
    BY <1>1, <1>2, <1>5, <2>2, ServersAssumption DEF Apart
  <2>4. \A t \in Sinks \ {s} : closing'[t] # 0 =>
          \A u \in Sinks \ {t} : closing'[u] # closing'[t]
                                 /\ (closing'[u] = 0 \/ AddrOf[u] # AddrOf[t])
    BY <1>5, <2>2 DEF Apart
  <2> QED
    BY <1>5, <2>1, <2>2, <2>3, <2>4 DEF Apart
<1>10. Accounted'
  <2>1. SUFFICES ASSUME NEW k \in listening
                 PROVE  (\E a \in Addrs : reg'[a] = k) \/ (\E t \in Sinks : closing'[t] = k)
    BY <1>2 DEF Accounted
  <2>2. closing[s] = 0 /\ k # 0
    BY <1>1 DEF Phase, Typed
  <2>3. CASE \E a \in Addrs : reg[a] = k
    BY <1>5, <2>3
  <2>4. CASE \E t \in Sinks : closing[t] = k
    BY <1>5, <2>2, <2>4
  <2> QED
    BY <2>3, <2>4 DEF Accounted
<1>11. RefsCountUsers'
  BY <1>1, <1>3, <1>4, <1>5 DEF RefsCountUsers
<1> QED
  BY <1>6, <1>7, <1>8, <1>9, <1>10, <1>11

LEMMA CloseServerLease ==
  ASSUME LeaseInv, NEW s \in Sinks, CloseServer(s)
  PROVE  LeaseInv'
<1> USE DEF LeaseInv
<1>1. holds[s] = "close" /\ closing[s] # 0 /\ handler[s] = 0
  BY DEF CloseServer, Phase
<1>2. /\ listening' = listening \ {closing[s]}
      /\ closing' = [closing EXCEPT ![s] = 0] /\ holds' = [holds EXCEPT ![s] = "free"]
      /\ UNCHANGED <<made, reg, refs, status, handler>>
  BY DEF CloseServer
<1>3. Typed'
  <2>1. made \in Nat /\ listening' \subseteq 1 .. made
    BY <1>2 DEF Typed
  <2>2. closing' \in [Sinks -> 0 .. made]
    BY <1>2, <2>1 DEF Typed
  <2> QED
    BY <1>2, <2>1, <2>2 DEF Typed
<1>4. /\ closing'[s] = 0 /\ holds'[s] = "free"
      /\ \A t \in Sinks \ {s} : closing'[t] = closing[t] /\ holds'[t] = holds[t]
  BY <1>2 DEF Typed
<1>5. \A t \in Sinks : Phase(t)'
  BY <1>1, <1>2, <1>4 DEF Phase
<1>6. Registered' /\ Apart'
  BY <1>1, <1>2, <1>4 DEF Registered, Apart
<1>7. Accounted'
  BY <1>2, <1>4 DEF Accounted
<1>8. RefsCountUsers'
  <2>1. \A a \in Addrs : UsersOf(a)' = UsersOf(a)
    BY <1>1, <1>2, <1>4 DEF UsersOf
  <2> QED
    BY <1>2, <2>1 DEF RefsCountUsers
<1> QED
  BY <1>3, <1>5, <1>6, <1>7, <1>8

LEMMA UnchangedLease ==
  ASSUME LeaseInv, UNCHANGED leaseVars
  PROVE  LeaseInv'
  BY DEF leaseVars, LeaseInv, Typed, Phase, Registered, Apart, Accounted, RefsCountUsers, UsersOf

LEMMA NextLease == LeaseInv /\ [Next]_vars => LeaseInv'
<1> SUFFICES ASSUME LeaseInv, [Next]_vars PROVE LeaseInv'
  OBVIOUS
<1>1. ASSUME NEW s \in Sinks,
             \/ StartShared(s) \/ StartFirst(s) \/ StartFails(s) \/ Configure(s) \/ RegisterPath(s)
             \/ StopNow(s) \/ Unlist(s) \/ ReleaseShared(s) \/ ReleaseLast(s) \/ CloseServer(s)
      PROVE  LeaseInv'
  BY <1>1, StartSharedLease, StartFirstLease, SinkLease, ReleaseSharedLease, ReleaseLastLease,
     CloseServerLease
<1>2. ASSUME NEW s \in Sinks, ConfigureHalf(s) \/ WriteBegin(s) \/ WriteVideo(s)
      PROVE  LeaseInv'
  <2>1. UNCHANGED leaseVars
    BY <1>2 DEF ConfigureHalf, WriteBegin, WriteVideo, leaseVars, managerVars, sinkVars
  <2> QED
    BY <2>1, UnchangedLease
<1>3. ASSUME NEW x \in Sessions,
             \/ Setup(x) \/ PlayRecord(x) \/ PlaySchedule(x) \/ Announce(x) \/ SessionClose(x)
             \/ LateOwner(x) \/ LateSend(x)
      PROVE  LeaseInv'
  <2>1. UNCHANGED leaseVars
    BY <1>3 DEF Setup, PlayRecord, PlaySchedule, Announce, SessionClose, LateOwner, LateSend,
                leaseVars, managerVars, sinkVars
  <2> QED
    BY <2>1, UnchangedLease
<1>4. CASE UNCHANGED vars
  BY <1>4, UnchangedLease DEF vars, leaseVars, managerVars, sinkVars
<1> QED
  BY <1>1, <1>2, <1>3, <1>4 DEF Next

(* The reference count of an address is the number of sinks that use its      *)
(* server, after any sequence of Starts, failed Starts and Stops (GetOrCreate *)
(* and Release).                                                              *)
THEOREM CountsRight == Spec => []RefsCountUsers
<1>1. LeaseInv => RefsCountUsers
  BY DEF LeaseInv
<1> QED
  BY <1>1, InitLease, NextLease, PTL DEF Spec

(* The server of a running sink listens and is the registered one: no Release *)
(* closes a server under a user, for any number of sinks and addresses.       *)
THEOREM NeverClosedInUse == Spec => []RunningSinkServed
<1>1. LeaseInv => RunningSinkServed
  <2> SUFFICES ASSUME LeaseInv, NEW s \in Sinks, status[s] = "running"
               PROVE  handler[s] \in listening /\ handler[s] = reg[AddrOf[s]]
    BY DEF RunningSinkServed
  <2>1. holds[s] \in {"free", "register"} /\ handler[s] # 0 /\ AddrOf[s] \in Addrs
    BY ServersAssumption DEF LeaseInv, Typed, Phase
  <2> QED
    BY <2>1 DEF LeaseInv, Registered
<1> QED
  BY <1>1, InitLease, NextLease, PTL DEF Spec

(* When every sink has stopped and no Stop is under way, no server listens    *)
(* (Release).                                                                 *)
THEOREM NoServerLeft == Spec => []NothingLeft
<1>1. LeaseInv => NothingLeft
  <2> SUFFICES ASSUME LeaseInv, \A s \in Sinks : Free(s) /\ status[s] # "running"
               PROVE  listening = {}
    BY DEF NothingLeft
  <2>1. \A s \in Sinks : handler[s] = 0 /\ closing[s] = 0 /\ holds[s] = "free"
    BY DEF LeaseInv, Phase, Free
  <2>2. \A a \in Addrs : UsersOf(a) = {}
    BY <2>1 DEF UsersOf
  <2>3. \A a \in Addrs : reg[a] = 0
    BY <2>2, FS_EmptySet DEF LeaseInv, RefsCountUsers
  <2>4. \A k \in listening : k # 0
    BY DEF LeaseInv, Typed
  <2> QED
    BY <2>1, <2>3, <2>4 DEF LeaseInv, Accounted
<1> QED
  BY <1>1, InitLease, NextLease, PTL DEF Spec

-----------------------------------------------------------------------------
(* The servers implement AddressLease.  A Start is an Acquire; the users are   *)
(* gone with Unlist, and only the last step of Stop closes.                   *)

Uses == [a \in Addrs |-> {s \in Sinks : AddrOf[s] = a /\ handler[s] # 0}]
ServedAddrs == {a \in Addrs : Served(a)}

LEMMA SameServed ==
  ASSUME UNCHANGED <<listening, reg, closing>>
  PROVE  ServedAddrs' = ServedAddrs
  BY DEF ServedAddrs, Served

LEMMA SameUses ==
  ASSUME handler' = handler
  PROVE  Uses' = Uses
  BY DEF Uses

\* A registered server and one to be closed are served addresses.
LEMMA NoServerZero ==
  ASSUME LeaseInv
  PROVE  0 \notin listening
  BY DEF LeaseInv, Typed

LEMMA AcquireMapped ==
  ASSUME LeaseInv, NEW s \in Sinks, StartShared(s) \/ StartFirst(s)
  PROVE  /\ Uses' = [Uses EXCEPT ![AddrOf[s]] = @ \cup {s}]
         /\ ServedAddrs' = ServedAddrs \cup {AddrOf[s]}
<1> DEFINE a0 == AddrOf[s]
<1>1. a0 \in Addrs /\ MayStart(s)
  BY ServersAssumption DEF StartShared, StartFirst
<1>2. \E k \in Nat \ {0} : handler' = [handler EXCEPT ![s] = k]
  BY <1>1 DEF LeaseInv, Typed, StartShared, StartFirst, Running
<1>3. handler'[s] # 0 /\ \A t \in Sinks \ {s} : handler'[t] = handler[t]
  BY <1>2 DEF LeaseInv, Typed
<1>4. Uses' = [Uses EXCEPT ![a0] = @ \cup {s}]
  BY <1>1, <1>3 DEF Uses
<1>5. ServedAddrs' = ServedAddrs \cup {a0}
  <2>1. CASE StartShared(s)
    <3>1. Served(a0)
      BY <1>1, <2>1 DEF StartShared, Served, LeaseInv, Registered
    <3>2. ServedAddrs' = ServedAddrs
      BY <2>1, SameServed DEF StartShared, Running
    <3> QED
      BY <1>1, <3>1, <3>2 DEF ServedAddrs
  <2>2. CASE StartFirst(s)
    <3>1. /\ listening' = listening \cup {made + 1} /\ closing' = closing
          /\ reg'[a0] = made + 1 /\ \A a \in Addrs \ {a0} : reg'[a] = reg[a]
      BY <1>1, <2>2 DEF StartFirst, Running, LeaseInv, Typed
    <3>2. (\A a \in Addrs : reg[a] # made + 1) /\ (\A t \in Sinks : closing[t] # made + 1)
      BY DEF LeaseInv, Typed
    <3>3. Served(a0)'
      BY <3>1 DEF Served
    <3>4. \A a \in Addrs \ {a0} : Served(a)' <=> Served(a)
      BY <3>1, <3>2 DEF Served
    <3> QED
      BY <1>1, <3>3, <3>4 DEF ServedAddrs
  <2> QED
    BY <2>1, <2>2
<1> QED
  BY <1>4, <1>5

LEMMA UnlistMapped ==
  ASSUME LeaseInv, NEW s \in Sinks, Unlist(s)
  PROVE  /\ s \in Uses[AddrOf[s]]
         /\ Uses' = [Uses EXCEPT ![AddrOf[s]] = @ \ {s}]
         /\ ServedAddrs' = ServedAddrs
<1>1. /\ handler[s] # 0 /\ handler'[s] = 0 /\ AddrOf[s] \in Addrs
      /\ \A t \in Sinks \ {s} : handler'[t] = handler[t]
  BY ServersAssumption DEF LeaseInv, Typed, Phase, Unlist
<1>2. s \in Uses[AddrOf[s]] /\ Uses' = [Uses EXCEPT ![AddrOf[s]] = @ \ {s}]
  BY <1>1 DEF Uses
<1>3. ServedAddrs' = ServedAddrs
  BY SameServed DEF Unlist, managerVars
<1> QED
  BY <1>2, <1>3

\* Between the two steps the server is still there.
LEMMA ReleaseLastMapped ==
  ASSUME LeaseInv, NEW s \in Sinks, ReleaseLast(s)
  PROVE  Uses' = Uses /\ ServedAddrs' = ServedAddrs
<1> DEFINE a0 == AddrOf[s]
<1>1. /\ a0 \in Addrs /\ listening' = listening /\ handler' = handler
      /\ reg'[a0] = 0 /\ closing'[s] = reg[a0] /\ closing[s] = 0
      /\ \A a \in Addrs \ {a0} : reg'[a] = reg[a]
      /\ \A t \in Sinks \ {s} : closing'[t] = closing[t]
  BY ServersAssumption DEF LeaseInv, Typed, Phase, ReleaseLast, Unregister
<1>2. \A a \in Addrs \ {a0} : Served(a)' <=> Served(a)
  BY <1>1 DEF Served
<1>3. Served(a0)' <=> Served(a0)
  BY <1>1, NoServerZero DEF Served
<1>4. ServedAddrs' = ServedAddrs
  BY <1>2, <1>3 DEF ServedAddrs
<1> QED
  BY <1>1, <1>4, SameUses

LEMMA CloseMapped ==
  ASSUME LeaseInv, NEW s \in Sinks, CloseServer(s)
  PROVE  /\ Uses[AddrOf[s]] = {} /\ AddrOf[s] \in ServedAddrs
         /\ ServedAddrs' = ServedAddrs \ {AddrOf[s]}
         /\ Uses' = Uses
<1> DEFINE a0 == AddrOf[s]
<1>1. /\ a0 \in Addrs /\ closing[s] # 0 /\ handler' = handler /\ reg' = reg
      /\ listening' = listening \ {closing[s]} /\ closing'[s] = 0
      /\ \A t \in Sinks \ {s} : closing'[t] = closing[t]
  BY ServersAssumption DEF LeaseInv, Typed, Phase, CloseServer
<1>2. /\ closing[s] \in listening /\ reg[a0] = 0
      /\ \A a \in Addrs : reg[a] # closing[s]
      /\ \A t \in Sinks \ {s} : closing[t] # closing[s] /\ (closing[t] = 0 \/ AddrOf[t] # a0)
  BY <1>1 DEF LeaseInv, Apart
<1>3. Uses[a0] = {}
  BY <1>1, <1>2 DEF Uses, LeaseInv, Registered
<1>4. Served(a0) /\ ~Served(a0)'
  BY <1>1, <1>2, NoServerZero DEF Served
<1>5. \A a \in Addrs \ {a0} : Served(a)' <=> Served(a)
  BY <1>1, <1>2, NoServerZero DEF Served
<1> QED
  BY <1>1, <1>3, <1>4, <1>5, SameUses DEF ServedAddrs

LEMMA StepMapped ==
  ASSUME LeaseInv, [Next]_vars
  PROVE  \/ UNCHANGED <<Uses, ServedAddrs>>
         \/ \E a \in Addrs : \/ Lease!Close(a)
                              \/ \E u \in Sinks : Lease!Acquire(a, u) \/ Lease!Release(a, u)
<1> DEFINE Goal == \/ UNCHANGED <<Uses, ServedAddrs>>
                   \/ \E a \in Addrs : \/ Lease!Close(a)
                                        \/ \E u \in Sinks : Lease!Acquire(a, u) \/ Lease!Release(a, u)
<1>0. \A s \in Sinks : AddrOf[s] \in Addrs
  BY ServersAssumption
<1>1. ASSUME NEW s \in Sinks, StartShared(s) \/ StartFirst(s) PROVE Goal
  <2>1. Lease!Acquire(AddrOf[s], s)
    BY <1>1, AcquireMapped DEF Lease!Acquire, Uses, ServedAddrs
  <2> QED
    BY <1>0, <2>1
<1>2. ASSUME NEW s \in Sinks, Unlist(s) PROVE Goal
  <2>1. Lease!Release(AddrOf[s], s)
    BY <1>2, UnlistMapped DEF Lease!Release, Uses, ServedAddrs
  <2> QED
    BY <1>0, <2>1
<1>3. ASSUME NEW s \in Sinks, CloseServer(s) PROVE Goal
  <2>1. Lease!Close(AddrOf[s])
    BY <1>3, CloseMapped DEF Lease!Close, Uses, ServedAddrs
  <2> QED
    BY <1>0, <2>1
<1>4. ASSUME NEW s \in Sinks, ReleaseLast(s) PROVE Goal
  BY <1>4, ReleaseLastMapped
<1>5. ASSUME UNCHANGED <<listening, reg, closing, handler>> PROVE Goal
  BY <1>5, SameServed, SameUses
<1>6. ASSUME NEW s \in Sinks,
             \/ StartFails(s) \/ Configure(s) \/ RegisterPath(s) \/ ConfigureHalf(s)
             \/ StopNow(s) \/ ReleaseShared(s) \/ WriteBegin(s) \/ WriteVideo(s)
      PROVE  Goal
  <2>1. UNCHANGED <<listening, reg, closing, handler>>
    BY <1>6 DEF StartFails, Configure, RegisterPath, ConfigureHalf, StopNow, ReleaseShared,
                WriteBegin, WriteVideo, managerVars, sinkVars
  <2> QED
    BY <1>5, <2>1
<1>7. ASSUME NEW x \in Sessions,
             \/ Setup(x) \/ PlayRecord(x) \/ PlaySchedule(x) \/ Announce(x) \/ SessionClose(x)
             \/ LateOwner(x) \/ LateSend(x)
      PROVE  Goal
  <2>1. UNCHANGED <<listening, reg, closing, handler>>
    BY <1>7 DEF Setup, PlayRecord, PlaySchedule, Announce, SessionClose, LateOwner, LateSend,
                managerVars, sinkVars
  <2> QED
    BY <1>5, <2>1
<1>8. ASSUME UNCHANGED vars PROVE Goal
  BY <1>5, <1>8 DEF vars, managerVars, sinkVars
<1> HIDE DEF Goal
<1>9. Goal
  <2>1. CASE Next
    <3>1. CASE \E s \in Sinks :
            \/ StartShared(s) \/ StartFirst(s) \/ StartFails(s)
            \/ Configure(s) \/ RegisterPath(s) \/ ConfigureHalf(s)
            \/ StopNow(s) \/ Unlist(s) \/ ReleaseShared(s) \/ ReleaseLast(s) \/ CloseServer(s)
            \/ WriteBegin(s) \/ WriteVideo(s)
      BY <1>1, <1>2, <1>3, <1>4, <1>6, <3>1
    <3> QED
      BY <1>7, <2>1, <3>1 DEF Next
  <2> QED
    BY <1>8, <2>1
<1> QED
  BY <1>9 DEF Goal

(* The shared servers implement the lease of addresses, for any sinks and     *)
(* addresses: an address is served while it is used and closed only when it   *)
(* is not, although Release closes outside the lock (GetOrCreate, Release).   *)
THEOREM ImplementsLease == Spec => LeaseSpec
<1>1. Init => Lease!Init
  BY DEF Init, Lease!Init, Served
<1>2. LeaseInv /\ [Next]_vars => [Lease!Next]_<<Uses, ServedAddrs>>
  BY StepMapped DEF Lease!Next
<1> QED
  BY <1>1, <1>2, InitLease, NextLease, PTL DEF Spec, LeaseSpec, Lease!Spec, Uses, ServedAddrs
-----------------------------------------------------------------------------
(* What the paths of the servers hold.                                        *)

Plays == {"recorded", "playing"}

Listing == [stream : 0 .. streams, onPlay : Sinks \cup {Nobody}, publisher : Sessions \cup {Nobody},
            readers : SUBSET Sessions]

PathTyped ==
  /\ made \in 0 .. MaxServers /\ streams \in Nat
  /\ stream \in [Sinks -> 0 .. streams]
  /\ paths \in [Servers -> [Paths -> Listing]]
  /\ ses \in [Sessions -> [at : {"away", "setup", "publishing"} \cup Plays, server : Nat,
                           path : Paths \cup {Away.path}]]
  /\ \A x \in Sessions : ses[x].at # "away" => ses[x].server \in Servers /\ ses[x].path \in Paths

(* The entry of a sink is where its handler and its path are, and says what    *)
(* it writes to, except between two sections of Configure.                    *)
Listed ==
  \A k \in Servers, p \in Paths : \A s \in Sinks : paths[k][p].onPlay = s =>
    /\ handler[s] = k /\ PathOf[s] = p /\ paths[k][p].publisher = Nobody
    /\ paths[k][p].stream # 0
    /\ holds[s] \in {"free", "register", "unlist"}
    /\ holds[s] # "register" => paths[k][p].stream = stream[s]
    /\ holds[s] = "free" => paths[k][p].stream \in open

(* Nobody shares a stream.                                                    *)
SinksApart == \A s, t \in Sinks : stream[s] # 0 /\ stream[s] = stream[t] => s = t
EntriesApart ==
  \A k, l \in Servers, p, q \in Paths :
    paths[k][p].stream # 0 /\ paths[k][p].stream = paths[l][q].stream => k = l /\ p = q

(* A stream that Configure has made is open and listed nowhere yet.           *)
Unlisted ==
  \A s \in Sinks : holds[s] = "register" =>
    /\ stream[s] # 0 /\ stream[s] \in open
    /\ \A k \in Servers, p \in Paths : paths[k][p].stream # stream[s]

(* Readers are sessions that play at that server.                             *)
Reading ==
  \A k \in Servers, p \in Paths : \A x \in paths[k][p].readers :
    ses[x].server = k /\ ses[x].at \in Plays

PathInv == PathTyped /\ Listed /\ SinksApart /\ EntriesApart /\ Unlisted /\ Reading

-----------------------------------------------------------------------------
LEMMA InitPath == Init => PathInv
  BY ServersAssumption
  DEF Init, PathInv, PathTyped, Listing, Listed, SinksApart, EntriesApart, Unlisted, Reading, NoPath, Plays,
      Servers, Away

LEMMA StartPath ==
  ASSUME LeaseInv, PathInv, NEW s \in Sinks, StartShared(s) \/ StartFirst(s) \/ StartFails(s)
  PROVE  PathInv'
<1>1. handler[s] = 0 /\ \A k \in Servers, p \in Paths : paths[k][p].onPlay # s
  BY DEF StartShared, StartFirst, StartFails, MayStart, Free, LeaseInv, Phase, Typed, PathInv, Listed,
         Servers
<1>2. UNCHANGED <<stream, streams, open, paths, ses, holds>> /\ made' \in 0 .. MaxServers
      /\ \A t \in Sinks \ {s} : handler'[t] = handler[t]
  BY ServersAssumption
  DEF StartShared, StartFirst, StartFails, Running, managerVars, streamVars, clientVars, PathInv,
      PathTyped, Listing, LeaseInv, Typed
<1>3. PathTyped' /\ SinksApart' /\ EntriesApart' /\ Unlisted' /\ Reading'
  BY <1>2 DEF PathInv, PathTyped, Listing, SinksApart, EntriesApart, Unlisted, Reading
<1>4. Listed'
  BY <1>1, <1>2 DEF PathInv, Listed
<1> QED
  BY <1>3, <1>4 DEF PathInv

LEMMA ConfigurePath ==
  ASSUME LeaseInv, PathInv, NEW s \in Sinks, Configure(s)
  PROVE  PathInv'
<1> USE DEF PathInv, PathTyped, Listing
<1>1. /\ streams' = streams + 1 /\ stream' = [stream EXCEPT ![s] = streams + 1]
      /\ open' = (open \ {stream[s]}) \cup {streams + 1}
      /\ holds' = [holds EXCEPT ![s] = "register"] /\ holds[s] = "free"
      /\ UNCHANGED <<made, paths, ses, handler>>
  BY DEF Configure, CloseOld, Free, managerVars, clientVars
<1>2. holds \in [Sinks -> {"free", "register", "unlist", "release", "close"}]
  BY DEF LeaseInv, Typed
<1>3. PathTyped'
  BY <1>1
<1>4. Listed'
  BY <1>1, <1>2 DEF Listed, SinksApart
<1>5. SinksApart' /\ EntriesApart' /\ Reading'
  BY <1>1 DEF SinksApart, EntriesApart, Reading
<1>6. Unlisted'
  BY <1>1, <1>2 DEF Unlisted, SinksApart
<1> QED
  BY <1>3, <1>4, <1>5, <1>6

LEMMA RegisterPathPath ==
  ASSUME LeaseInv, PathInv, NEW s \in Sinks, RegisterPath(s)
  PROVE  PathInv'
<1> USE DEF PathInv, PathTyped, Listing
<1> DEFINE new == [stream |-> stream[s], onPlay |-> s, publisher |-> Nobody, readers |-> {}]
<1>1. /\ paths' = [paths EXCEPT ![handler[s]][PathOf[s]] = new]
      /\ holds' = [holds EXCEPT ![s] = "free"] /\ holds[s] = "register"
      /\ UNCHANGED <<made, streams, stream, open, ses, handler>>
  BY DEF RegisterPath, managerVars, clientVars
<1>2. holds \in [Sinks -> {"free", "register", "unlist", "release", "close"}] /\ PathOf[s] \in Paths
  BY ServersAssumption DEF LeaseInv, Typed
<1>3. \A k \in Servers, p \in Paths :
        paths'[k][p] = IF k = handler[s] /\ p = PathOf[s] THEN new ELSE paths[k][p]
  BY <1>1, <1>2
<1>4. PathTyped'
  BY <1>1, <1>2
<1> HIDE DEF PathTyped
<1>5. Listed'
  BY <1>1, <1>2, <1>3 DEF Listed, Unlisted
<1>6. SinksApart' /\ EntriesApart' /\ Reading'
  BY <1>1, <1>3 DEF SinksApart, EntriesApart, Reading, Unlisted
<1>7. Unlisted'
  BY <1>1, <1>2, <1>3 DEF Unlisted, SinksApart
<1> QED
  BY <1>4, <1>5, <1>6, <1>7

LEMMA StopPath ==
  ASSUME LeaseInv, PathInv, NEW s \in Sinks, StopNow(s)
  PROVE  PathInv'
<1> USE DEF PathInv, PathTyped, Listing
<1>1. /\ open' = open \ {stream[s]} /\ holds[s] = "free"
      /\ holds' = [holds EXCEPT ![s] = IF handler[s] # 0 THEN "unlist" ELSE "free"]
      /\ UNCHANGED <<made, streams, stream, paths, ses, handler>>
  BY DEF StopNow, Free, managerVars, clientVars
<1>2. holds \in [Sinks -> {"free", "register", "unlist", "release", "close"}]
  BY DEF LeaseInv, Typed
<1>3. PathTyped' /\ SinksApart' /\ EntriesApart' /\ Reading'
  BY <1>1 DEF SinksApart, EntriesApart, Reading
<1>4. Listed'
  BY <1>1, <1>2 DEF Listed, SinksApart, Servers
<1>5. Unlisted'
  BY <1>1, <1>2 DEF Unlisted, SinksApart
<1> QED
  BY <1>3, <1>4, <1>5

LEMMA UnlistPath ==
  ASSUME LeaseInv, PathInv, NEW s \in Sinks, Unlist(s)
  PROVE  PathInv'
<1> USE DEF PathInv, PathTyped, Listing
<1>1. /\ stream' = [stream EXCEPT ![s] = 0] /\ handler' = [handler EXCEPT ![s] = 0]
      /\ holds' = [holds EXCEPT ![s] = "release"] /\ holds[s] = "unlist"
      /\ UNCHANGED <<made, streams, open, ses>>
      /\ paths' = IF OwnPath(s) THEN [paths EXCEPT ![handler[s]][PathOf[s]] = NoPath] ELSE paths
  BY DEF Unlist, managerVars, clientVars
<1>2. /\ holds \in [Sinks -> {"free", "register", "unlist", "release", "close"}]
      /\ PathOf[s] \in Paths /\ Nobody \notin Sinks
      /\ handler \in [Sinks -> 0 .. made]
  BY ServersAssumption DEF LeaseInv, Typed
<1>3. \A k \in Servers, p \in Paths :
        /\ paths'[k][p] \in {paths[k][p], NoPath}
        /\ k = handler[s] /\ p = PathOf[s] /\ paths[k][p].stream = stream[s] => paths'[k][p] = NoPath
  BY <1>1, <1>2 DEF OwnPath
<1>4. PathTyped'
  <2>1. NoPath \in Listing
    BY DEF NoPath
  <2>2. paths' \in [Servers -> [Paths -> Listing]]
    BY <1>1, <2>1
  <2> QED
    BY <1>1, <2>2
<1> HIDE DEF PathTyped
<1>5. Listed'
  BY <1>1, <1>2, <1>3 DEF Listed, NoPath
<1>6. SinksApart' /\ EntriesApart' /\ Reading'
  BY <1>1, <1>3 DEF SinksApart, EntriesApart, Reading, NoPath, PathTyped, Listing
<1>7. Unlisted'
  BY <1>1, <1>2, <1>3 DEF Unlisted, NoPath, PathTyped, Listing
<1> QED
  BY <1>4, <1>5, <1>6, <1>7

LEMMA ReleasePath ==
  ASSUME LeaseInv, PathInv, NEW s \in Sinks,
         ReleaseShared(s) \/ ReleaseLast(s) \/ CloseServer(s)
  PROVE  PathInv'
<1>1. /\ UNCHANGED <<made, streams, stream, open, paths, ses, handler>>
      /\ holds[s] \in {"release", "close"} /\ holds'[s] \in {"free", "close"}
      /\ \A t \in Sinks \ {s} : holds'[t] = holds[t]
  BY DEF ReleaseShared, ReleaseLast, CloseServer, streamVars, clientVars, LeaseInv, Typed
<1>2. PathTyped' /\ SinksApart' /\ EntriesApart' /\ Reading'
  BY <1>1 DEF PathInv, PathTyped, Listing, SinksApart, EntriesApart, Reading
<1>3. Listed' /\ Unlisted'
  BY <1>1 DEF PathInv, Listed, Unlisted
<1> QED
  BY <1>2, <1>3 DEF PathInv

LEMMA QuietPath ==
  ASSUME PathInv, UNCHANGED <<made, stream, open, paths, ses, handler, holds>>,
         streams' \in {streams, streams + 1}
  PROVE  PathInv'
  BY DEF PathInv, PathTyped, Listing, Listed, SinksApart, EntriesApart, Unlisted, Reading

LEMMA SetupPath ==
  ASSUME LeaseInv, PathInv, NEW x \in Sessions, Setup(x)
  PROVE  PathInv'
<1> USE DEF PathInv, PathTyped, Listing
<1>1. PICK k \in listening, p \in Paths :
        ses' = [ses EXCEPT ![x] = [at |-> "setup", server |-> k, path |-> p]]
  BY DEF Setup
<1>2. UNCHANGED <<made, streams, stream, open, paths, handler, holds>> /\ ses[x].at = "away"
  BY DEF Setup, managerVars, sinkVars, streamVars
<1>3. k \in Servers
  BY ServersAssumption DEF LeaseInv, Typed, Servers
<1>4. PathTyped'
  BY <1>1, <1>2, <1>3 DEF Servers
<1>5. Reading'
  BY <1>1, <1>2 DEF Reading, Plays
<1> QED
  BY <1>2, <1>4, <1>5 DEF Listed, SinksApart, EntriesApart, Unlisted

LEMMA PlayPath ==
  ASSUME PathInv, NEW x \in Sessions, PlayRecord(x) \/ PlaySchedule(x)
  PROVE  PathInv'
<1> USE DEF PathInv, PathTyped, Listing
<1>1. /\ UNCHANGED <<made, streams, stream, open, handler, holds>>
      /\ ses[x].at \in {"setup", "recorded"}
      /\ \E at \in Plays : ses' = [ses EXCEPT ![x].at = at]
  BY DEF PlayRecord, PlaySchedule, managerVars, sinkVars, streamVars, Plays
<1>2. \A y \in Sessions : ses'[y].server = ses[y].server /\ (ses[y].at \in Plays => ses'[y].at \in Plays)
  BY <1>1
<1>3. ses'[x].at \in Plays
  BY <1>1
<1> DEFINE with(e) == [e EXCEPT !.readers = @ \cup {x}]
<1>4. \A e \in Listing :
        /\ with(e) \in Listing /\ with(e).readers = e.readers \cup {x} /\ with(e).stream = e.stream
        /\ with(e).onPlay = e.onPlay /\ with(e).publisher = e.publisher
  OBVIOUS
<1> HIDE DEF with
<1>5. /\ paths' \in [Servers -> [Paths -> Listing]]
      /\ \A k \in Servers, p \in Paths :
           paths'[k][p] = paths[k][p] \/ (k = ses[x].server /\ paths'[k][p] = with(paths[k][p]))
  <2>1. CASE paths' = paths
    BY <2>1
  <2>2. CASE paths' = [paths EXCEPT ![ses[x].server][ses[x].path] = with(@)]
    <3> DEFINE k == ses[x].server
               row == [paths[k] EXCEPT ![ses[x].path] = with(@)]
    <3> HIDE DEF Listing
    <3>1. k \in Servers
      BY <1>1
    <3>2. paths[k] \in [Paths -> Listing]
      BY <3>1
    <3>3. row \in [Paths -> Listing] /\ \A p \in Paths : row[p] \in {paths[k][p], with(paths[k][p])}
      BY <1>4, <3>2
    <3>4. paths' = [paths EXCEPT ![k] = row]
      BY <2>2
    <3> HIDE DEF row
    <3> QED
      BY <3>1, <3>3, <3>4
  <2> QED
    BY <2>1, <2>2 DEF PlayRecord, PlaySchedule, streamVars, with
<1>6. PathTyped'
  <2>1. Listing' = Listing
    BY <1>1
  <2>2. /\ ses' \in [Sessions -> [at : {"away", "setup", "publishing"} \cup Plays, server : Nat,
                                 path : Paths \cup {Away.path}]]
        /\ \A y \in Sessions : ses'[y].at # "away" => ses'[y].server \in Servers /\ ses'[y].path \in Paths
    <3>1. PICK at \in Plays : ses' = [ses EXCEPT ![x].at = at]
      BY <1>1
    <3>2. at # "away" /\ ses[x].server \in Servers /\ ses[x].path \in Paths
      BY <1>1 DEF Plays
    <3> QED
      BY <3>1, <3>2
  <2> HIDE DEF Listing
  <2> QED
    BY <1>1, <1>5, <2>1, <2>2
<1>7. \A k \in Servers, p \in Paths :
        /\ paths'[k][p].stream = paths[k][p].stream /\ paths'[k][p].onPlay = paths[k][p].onPlay
        /\ paths'[k][p].publisher = paths[k][p].publisher
        /\ \A y \in paths'[k][p].readers : y \in paths[k][p].readers \/ (y = x /\ ses[x].server = k)
  <2> HIDE DEF Listing
  <2> QED
    BY <1>4, <1>5
<1>8. Reading'
  BY <1>2, <1>3, <1>6, <1>7 DEF Reading
<1> HIDE DEF PathTyped
<1>9. Listed' /\ SinksApart' /\ EntriesApart' /\ Unlisted'
  BY <1>1, <1>7 DEF Listed, SinksApart, EntriesApart, Unlisted
<1> QED
  BY <1>6, <1>8, <1>9

LEMMA AnnouncePath ==
  ASSUME LeaseInv, PathInv, NEW x \in Sessions, Announce(x)
  PROVE  PathInv'
<1> USE DEF PathInv
<1>1. PICK k \in listening, p \in Paths :
        /\ ses' = [ses EXCEPT ![x] = [at |-> "publishing", server |-> k, path |-> p]]
        /\ open' = (open \ {paths[k][p].stream}) \cup {streams + 1}
        /\ paths' = [paths EXCEPT ![k][p] = [stream |-> streams + 1, onPlay |-> Nobody,
                                             publisher |-> x, readers |-> {}]]
  BY DEF Announce
<1>2. /\ UNCHANGED <<made, stream, handler, holds>> /\ ses[x].at = "away"
      /\ streams' = streams + 1
  BY DEF Announce, managerVars, sinkVars
<1>3. k \in Servers /\ Nobody \notin Sinks
  BY ServersAssumption DEF LeaseInv, Typed, PathTyped, Listing, Servers
<1>4. \A l \in Servers, q \in Paths :
        paths'[l][q] = IF l = k /\ q = p
                       THEN [stream |-> streams + 1, onPlay |-> Nobody, publisher |-> x,
                             readers |-> {}]
                       ELSE paths[l][q]
  BY <1>1, <1>3 DEF PathTyped, Listing
<1>5. PathTyped'
  BY <1>1, <1>2, <1>3 DEF PathTyped, Listing, Servers
<1>6. \A l \in Servers, q \in Paths : paths[l][q].stream \in 0 .. streams
  BY DEF PathTyped, Listing
<1>7. streams \in Nat /\ \A s \in Sinks : stream[s] \in 0 .. streams
  BY DEF PathTyped, Listing
<1>8. Listed'
  BY <1>1, <1>2, <1>3, <1>4 DEF Listed, EntriesApart
<1>9. SinksApart' /\ EntriesApart'
  BY <1>2, <1>4, <1>6, <1>7 DEF SinksApart, EntriesApart
<1>10. Unlisted'
  BY <1>1, <1>2, <1>3, <1>4, <1>7 DEF Unlisted
<1>11. Reading'
  BY <1>1, <1>2, <1>4 DEF Reading, Plays, PathTyped, Listing
<1> QED
  BY <1>5, <1>8, <1>9, <1>10, <1>11

LEMMA SessionClosePath ==
  ASSUME PathInv, NEW x \in Sessions, SessionClose(x)
  PROVE  PathInv'
<1> USE DEF PathInv
<1> DEFINE k == ses[x].server
<1>1. /\ UNCHANGED <<made, streams, stream, handler, holds>>
      /\ ses' = [ses EXCEPT ![x] = Away]
      /\ open' = open \ {paths[k][p].stream : p \in {q \in Paths : paths[k][q].publisher = x}}
      /\ paths' = [paths EXCEPT ![k] =
           [p \in Paths |-> IF paths[k][p].publisher = x THEN NoPath ELSE Without(paths[k][p], x)]]
  BY DEF SessionClose, managerVars, sinkVars
<1>2. k \in Servers /\ Nobody \notin Sinks \cup Sessions
  BY ServersAssumption DEF SessionClose, PathTyped, Listing
<1>3. \A l \in Servers, q \in Paths :
        paths'[l][q] = IF l # k THEN paths[l][q]
                       ELSE IF paths[k][q].publisher = x THEN NoPath ELSE Without(paths[k][q], x)
  BY <1>1, <1>2 DEF PathTyped, Listing
<1> DEFINE without(e) == [e EXCEPT !.readers = @ \ {x}]
<1>4. \A e \in Listing :
        /\ without(e) \in Listing /\ without(e).readers = e.readers \ {x}
        /\ without(e).stream = e.stream
        /\ without(e).onPlay = e.onPlay /\ without(e).publisher = e.publisher
  BY DEF Listing
<1>5. NoPath \in Listing /\ NoPath.readers = {} /\ streams' = streams
  BY <1>1 DEF NoPath, Listing, PathTyped
<1> HIDE DEF without
<1>6. \A l \in Servers, q \in Paths : paths[l][q] \in Listing
  BY DEF PathTyped
<1>7. \A l \in Servers, q \in Paths :
        /\ paths'[l][q] \in {NoPath, paths[l][q], without(paths[l][q])}
        /\ l = k => paths'[l][q] \in {NoPath, without(paths[l][q])}
  BY <1>3 DEF Without, without
<1>8. \A l \in Servers, q \in Paths :
        /\ paths'[l][q] \in Listing
        /\ \/ paths'[l][q] = NoPath
           \/ /\ paths'[l][q].stream = paths[l][q].stream /\ paths'[l][q].onPlay = paths[l][q].onPlay
              /\ paths'[l][q].publisher = paths[l][q].publisher
        /\ paths'[l][q].readers \subseteq paths[l][q].readers
        /\ l = k => x \notin paths'[l][q].readers
  <2> TAKE l \in Servers, q \in Paths
  <2>1. paths[l][q] \in Listing
    BY <1>6
  <2>2. CASE paths'[l][q] = NoPath
    BY <1>5, <2>2
  <2>3. CASE paths'[l][q] = paths[l][q] /\ l # k
    BY <2>1, <2>3
  <2>4. CASE paths'[l][q] = without(paths[l][q])
    BY <1>4, <2>1, <2>4
  <2> QED
    BY <1>7, <2>2, <2>3, <2>4
<1>9. PathTyped'
  <2>1. paths' \in [Servers -> [Paths -> Listing]]
    <3> DEFINE row == [p \in Paths |-> IF paths[k][p].publisher = x THEN NoPath
                                      ELSE Without(paths[k][p], x)]
    <3>1. paths' = [paths EXCEPT ![k] = row]
      BY <1>1
    <3>2. row \in [Paths -> Listing]
      BY <1>2, <1>4, <1>5, <1>6 DEF Without, without
    <3> HIDE DEF row
    <3> QED
      BY <3>1, <3>2 DEF PathTyped
  <2>2. ses' \in [Sessions -> [at : {"away", "setup", "publishing"} \cup Plays, server : Nat,
                              path : Paths \cup {Away.path}]]
        /\ \A y \in Sessions : ses'[y].at # "away" => ses'[y].server \in Servers /\ ses'[y].path \in Paths
    BY <1>1 DEF PathTyped, Away
  <2> QED
    BY <1>1, <2>1, <2>2 DEF PathTyped, Listing
<1>10. ASSUME NEW l \in Servers, NEW q \in Paths,
              paths'[l][q].stream # 0 \/ paths'[l][q].onPlay # Nobody
       PROVE  /\ paths'[l][q].stream = paths[l][q].stream /\ paths'[l][q].onPlay = paths[l][q].onPlay
              /\ paths'[l][q].publisher = paths[l][q].publisher
  BY <1>8, <1>10 DEF NoPath
<1>11. Listed'
  <2>0. handler' = handler /\ holds' = holds /\ stream' = stream
    BY <1>1
  <2> SUFFICES ASSUME NEW l \in Servers, NEW q \in Paths, NEW s \in Sinks, paths'[l][q].onPlay = s
               PROVE  /\ handler[s] = l /\ PathOf[s] = q /\ paths'[l][q].publisher = Nobody
                      /\ paths'[l][q].stream # 0
                      /\ holds[s] \in {"free", "register", "unlist"}
                      /\ holds[s] # "register" => paths'[l][q].stream = stream[s]
                      /\ holds[s] = "free" => paths'[l][q].stream \in open'
    BY <2>0 DEF Listed
  <2>1. /\ paths'[l][q].stream = paths[l][q].stream /\ paths[l][q].onPlay = s
        /\ paths'[l][q].publisher = paths[l][q].publisher
    BY <1>2, <1>10
  <2>2. /\ handler[s] = l /\ PathOf[s] = q /\ paths[l][q].publisher = Nobody
        /\ paths[l][q].stream # 0 /\ holds[s] \in {"free", "register", "unlist"}
        /\ holds[s] # "register" => paths[l][q].stream = stream[s]
        /\ holds[s] = "free" => paths[l][q].stream \in open
    BY <2>1 DEF Listed
  <2>3. ASSUME NEW r \in Paths, paths[k][r].publisher = x PROVE paths[k][r].stream # paths[l][q].stream
    BY <1>2, <2>2, <2>3 DEF EntriesApart
  <2>4. paths[l][q].stream \in open => paths[l][q].stream \in open'
    BY <1>1, <2>3
  <2> QED
    BY <2>1, <2>2, <2>4
<1>12. SinksApart'
  BY <1>1 DEF SinksApart
<1>13. EntriesApart'
  BY <1>10 DEF EntriesApart
<1>14. Unlisted'
  <2>0. holds' = holds /\ stream' = stream
    BY <1>1
  <2> SUFFICES ASSUME NEW s \in Sinks, holds[s] = "register"
               PROVE  /\ stream[s] # 0 /\ stream[s] \in open'
                      /\ \A l \in Servers, q \in Paths : paths'[l][q].stream # stream[s]
    BY <2>0 DEF Unlisted
  <2>1. /\ stream[s] # 0 /\ stream[s] \in open
        /\ \A l \in Servers, q \in Paths : paths[l][q].stream # stream[s]
    BY DEF Unlisted
  <2>2. stream[s] \in open'
    BY <1>1, <1>2, <2>1
  <2> QED
    BY <1>10, <2>1, <2>2
<1>15. Reading'
  <2> SUFFICES ASSUME NEW l \in Servers, NEW q \in Paths, NEW y \in paths'[l][q].readers
               PROVE  ses'[y].server = l /\ ses'[y].at \in Plays
    BY DEF Reading
  <2>1. y \in paths[l][q].readers /\ y \in Sessions
    BY <1>6, <1>8 DEF Listing
  <2>2. ses[y].server = l /\ ses[y].at \in Plays
    BY <2>1 DEF Reading
  <2>3. y # x
    BY <1>8, <2>2
  <2>4. ses'[y] = ses[y]
    BY <1>1, <2>1, <2>3 DEF PathTyped
  <2> QED
    BY <2>2, <2>4
<1> QED
  BY <1>9, <1>11, <1>12, <1>13, <1>14, <1>15

LEMMA NextPath == LeaseInv /\ PathInv /\ [Next]_vars => PathInv'
<1> SUFFICES ASSUME LeaseInv, PathInv, [Next]_vars PROVE PathInv'
  OBVIOUS
<1>1. ASSUME NEW s \in Sinks,
             \/ StartShared(s) \/ StartFirst(s) \/ StartFails(s) \/ Configure(s) \/ RegisterPath(s)
             \/ StopNow(s) \/ Unlist(s) \/ ReleaseShared(s) \/ ReleaseLast(s) \/ CloseServer(s)
      PROVE  PathInv'
  BY <1>1, StartPath, ConfigurePath, RegisterPathPath, StopPath, UnlistPath, ReleasePath
<1>2. ASSUME NEW s \in Sinks, ConfigureHalf(s) \/ WriteBegin(s) \/ WriteVideo(s)
      PROVE  PathInv'
  BY <1>2, QuietPath
  DEF ConfigureHalf, WriteBegin, WriteVideo, managerVars, sinkVars, streamVars, clientVars
<1>3. ASSUME NEW x \in Sessions,
             Setup(x) \/ PlayRecord(x) \/ PlaySchedule(x) \/ Announce(x) \/ SessionClose(x)
      PROVE  PathInv'
  BY <1>3, SetupPath, PlayPath, AnnouncePath, SessionClosePath
<1>4. ASSUME NEW x \in Sessions, LateOwner(x) \/ LateSend(x)
      PROVE  PathInv'
  BY <1>4, QuietPath DEF LateOwner, LateSend, managerVars, sinkVars, streamVars
<1>5. CASE UNCHANGED vars
  BY <1>5, QuietPath DEF vars, managerVars, sinkVars, streamVars, clientVars
<1> QED
  BY <1>1, <1>2, <1>3, <1>4, <1>5 DEF Next

(* What a sink's path answers to DESCRIBE is the open stream the sink writes   *)
(* to, whoever else is configured, stops or publishes (rtsp_server.go).       *)
THEOREM PathsTrue == Spec => []PathsAnswer
<1>1. LeaseInv /\ PathInv => PathsAnswer
  <2> SUFFICES ASSUME LeaseInv, PathInv, NEW k \in listening, NEW p \in Paths,
                      paths[k][p].onPlay # Nobody, Free(paths[k][p].onPlay)
               PROVE  /\ paths[k][p].stream = stream[paths[k][p].onPlay]
                      /\ paths[k][p].stream \in open
    BY DEF PathsAnswer
  <2>1. k \in Servers
    BY ServersAssumption DEF LeaseInv, Typed, PathInv, PathTyped, Listing, Servers
  <2>2. paths[k][p].onPlay \in Sinks
    BY <2>1 DEF PathInv, PathTyped, Listing
  <2> QED
    BY <2>1, <2>2 DEF PathInv, Listed, Free
<1> QED
  BY <1>1, InitLease, NextLease, InitPath, NextPath, PTL DEF Spec

(* No client stays listed as a reader once its session is over, in whatever    *)
(* order PLAY, the end of the session and a Configure come (OnSessionClose).   *)
THEOREM ReadersLeave == Spec => []ReadersConnected
<1>1. PathInv => ReadersConnected
  BY DEF PathInv, Reading, ReadersConnected
<1> QED
  BY <1>1, InitLease, NextLease, InitPath, NextPath, PTL DEF Spec

-----------------------------------------------------------------------------
(* A stream somebody has read and that is open is still the sink's: Configure *)
(* and Stop close what they replace, before anybody else may look.            *)
Current ==
  /\ writer \in [Sinks -> 0 .. streams]
  /\ late \in [Sessions -> [at : {"none", "sleep", "owner"}, stream : 0 .. streams,
                            sink : Sinks \cup {Nobody}]]
  /\ \A s \in Sinks : writer[s] # 0 /\ writer[s] \in open => stream[s] = writer[s]
  /\ \A x \in Sessions : late[x].at # "none" => late[x].sink \in Sinks
  /\ \A x \in Sessions : late[x].at = "owner" /\ late[x].stream \in open
                           => stream[late[x].sink] = late[x].stream
  /\ \A s \in Sinks : holds[s] = "unlist" => stream[s] \notin open
  /\ open \subseteq 1 .. streams
  /\ RacesHarmless

LEMMA InitCurrent == Init => Current
  BY ServersAssumption DEF Init, Current, Resting, RacesHarmless

LEMMA SameCurrent ==
  ASSUME Current, UNCHANGED <<stream, writer, late, foreign>>,
         streams' \in {streams, streams + 1}, streams \in Nat, open' \subseteq open \cup {streams'},
         open' \subseteq open \/ streams' = streams + 1,
         \A s \in Sinks : stream[s] \in 0 .. streams,
         \A s \in Sinks : holds'[s] = "unlist" => holds[s] = "unlist" \/ stream[s] \notin open'
  PROVE  Current'
  BY DEF Current, RacesHarmless

LEMMA SinkCurrent ==
  ASSUME LeaseInv, PathInv, Current, NEW s \in Sinks,
         \/ StartShared(s) \/ StartFirst(s) \/ StartFails(s) \/ ConfigureHalf(s)
         \/ RegisterPath(s) \/ StopNow(s) \/ ReleaseShared(s) \/ ReleaseLast(s) \/ CloseServer(s)
  PROVE  Current'
<1>1. streams \in Nat /\ \A t \in Sinks : stream[t] \in 0 .. streams
  BY DEF PathInv, PathTyped
<1>2. holds \in [Sinks -> {"free", "register", "unlist", "release", "close"}]
  BY DEF LeaseInv, Typed
<1>3. /\ UNCHANGED <<stream, writer, late, foreign>> /\ streams' \in {streams, streams + 1}
      /\ open' \subseteq open
      /\ \A t \in Sinks : holds'[t] = "unlist" => holds[t] = "unlist" \/ stream[t] \notin open'
  BY <1>2 DEF StartShared, StartFirst, StartFails, Running, ConfigureHalf, RegisterPath, StopNow,
     ReleaseShared, ReleaseLast, CloseServer, managerVars, sinkVars, streamVars, clientVars
<1> QED
  BY <1>1, <1>3, SameCurrent

LEMMA ConfigureCurrent ==
  ASSUME LeaseInv, PathInv, Current, NEW s \in Sinks, Configure(s)
  PROVE  Current'
<1>1. streams \in Nat /\ stream \in [Sinks -> 0 .. streams]
  BY DEF PathInv, PathTyped
<1>2. /\ streams' = streams + 1 /\ stream' = [stream EXCEPT ![s] = streams + 1]
      /\ open' = (open \ {stream[s]}) \cup {streams + 1}
      /\ holds' = [holds EXCEPT ![s] = "register"]
      /\ UNCHANGED <<late, writer, foreign>>
  BY DEF Configure, CloseOld, clientVars
<1>3. holds \in [Sinks -> {"free", "register", "unlist", "release", "close"}]
  BY DEF LeaseInv, Typed
<1>4. 0 .. streams \subseteq 0 .. streams' /\ 1 .. streams \subseteq 1 .. streams'
  BY <1>1, <1>2
<1>5. writer' \in [Sinks -> 0 .. streams'] /\ open' \subseteq 1 .. streams' /\ RacesHarmless'
  <2>1. writer' \in [Sinks -> 0 .. streams']
    BY <1>2, <1>4 DEF Current
  <2>2. open' \subseteq 1 .. streams'
    <3>1. open \subseteq 1 .. streams
      BY DEF Current
    <3>2. streams + 1 \in 1 .. streams'
      BY <1>1, <1>2
    <3> QED
      BY <1>2, <1>4, <3>1, <3>2
  <2>3. RacesHarmless'
    BY <1>2 DEF Current, RacesHarmless
  <2> QED
    BY <2>1, <2>2, <2>3
<1>6. /\ late' \in [Sessions -> [at : {"none", "sleep", "owner"}, stream : 0 .. streams',
                                 sink : Sinks \cup {Nobody}]]
      /\ \A x \in Sessions : late'[x].at # "none" => late'[x].sink \in Sinks
  BY <1>2, <1>4 DEF Current
<1>7. \A t \in Sinks : writer'[t] # 0 /\ writer'[t] \in open' => stream'[t] = writer'[t]
  BY <1>1, <1>2 DEF Current
<1>8. \A x \in Sessions : late'[x].at = "owner" /\ late'[x].stream \in open'
                           => stream'[late'[x].sink] = late'[x].stream
  BY <1>1, <1>2 DEF Current
<1>9. \A t \in Sinks : holds'[t] = "unlist" => stream'[t] \notin open'
  BY <1>1, <1>2, <1>3 DEF Current
<1> QED
  BY <1>5, <1>6, <1>7, <1>8, <1>9 DEF Current

LEMMA UnlistCurrent ==
  ASSUME LeaseInv, PathInv, Current, NEW s \in Sinks, Unlist(s)
  PROVE  Current'
<1>1. streams \in Nat /\ stream \in [Sinks -> 0 .. streams]
  BY DEF PathInv, PathTyped
<1>2. /\ stream' = [stream EXCEPT ![s] = 0] /\ holds' = [holds EXCEPT ![s] = "release"]
      /\ holds[s] = "unlist" /\ UNCHANGED <<streams, open, late, writer, foreign>>
  BY DEF Unlist, clientVars
<1>3. holds \in [Sinks -> {"free", "register", "unlist", "release", "close"}]
  BY DEF LeaseInv, Typed
<1> QED
  BY <1>1, <1>2, <1>3 DEF Current, RacesHarmless

(* What a sink sends under its lock to an open stream of its own is foreign   *)
(* only if its media was another one's already.                               *)
LEMMA PacketHarmless ==
  ASSUME PathInv, RacesHarmless, NEW s \in Sinks, NEW n \in Nat, Packet(s, n),
         n \in open => n # 0 /\ stream[s] = n
  PROVE  RacesHarmless'
<1>1. CASE foreign' = foreign
  BY <1>1 DEF RacesHarmless
<1>2. CASE n \in open /\ video[s] \notin {0, n}
  <2>1. ~Fits(s)
    BY <1>2 DEF Fits
  <2>2. foreign' = foreign \cup {[sink |-> s, mixed |-> TRUE]}
    BY <1>2, <2>1 DEF Packet
  <2> QED
    BY <2>2 DEF RacesHarmless
<1> QED
  BY <1>1, <1>2 DEF Packet

LEMMA WriterCurrent ==
  ASSUME PathInv, Current, NEW s \in Sinks, WriteBegin(s) \/ WriteVideo(s)
  PROVE  Current'
<1>1. streams \in Nat /\ stream \in [Sinks -> 0 .. streams]
  BY DEF PathInv, PathTyped
<1>2. /\ UNCHANGED <<stream, streams, open, holds, late>>
      /\ writer' \in {[writer EXCEPT ![s] = stream[s]], [writer EXCEPT ![s] = 0]}
  BY DEF WriteBegin, WriteVideo, sinkVars, streamVars, clientVars
<1>3. RacesHarmless'
  <2>1. CASE WriteBegin(s)
    BY <2>1 DEF WriteBegin, Current, RacesHarmless
  <2>2. CASE WriteVideo(s)
    <3>1. writer[s] \in Nat /\ (writer[s] \in open => writer[s] # 0 /\ stream[s] = writer[s])
      BY <1>1, <2>2 DEF WriteVideo, Current
    <3> QED
      BY <2>2, <3>1, PacketHarmless DEF WriteVideo, Current
  <2> QED
    BY <2>1, <2>2
<1> QED
  BY <1>1, <1>2, <1>3 DEF Current

LEMMA LateCurrent ==
  ASSUME PathInv, Current, NEW x \in Sessions, LateOwner(x) \/ LateSend(x)
  PROVE  Current'
<1>1. streams \in Nat /\ stream \in [Sinks -> 0 .. streams]
  BY DEF PathInv, PathTyped
<1>2. UNCHANGED <<stream, streams, open, holds, writer>>
  BY DEF LateOwner, LateSend, sinkVars, streamVars
<1>3. \/ late' = [late EXCEPT ![x] = Resting]
      \/ stream[late[x].sink] = late[x].stream /\ late' = [late EXCEPT ![x].at = "owner"]
         /\ late[x].at = "sleep"
  BY DEF LateOwner, LateSend
<1>4. RacesHarmless'
  <2>1. CASE LateOwner(x)
    BY <2>1 DEF LateOwner, Current, RacesHarmless
  <2>2. CASE LateSend(x)
    <3>1. /\ late[x].sink \in Sinks /\ late[x].stream \in Nat
          /\ late[x].stream \in open => late[x].stream # 0 /\ stream[late[x].sink] = late[x].stream
      BY <1>1, <2>2 DEF LateSend, Current
    <3> QED
      BY <2>2, <3>1, PacketHarmless DEF LateSend, Current
  <2> QED
    BY <2>1, <2>2
<1>5. CASE late' = [late EXCEPT ![x] = Resting]
  BY <1>1, <1>2, <1>4, <1>5 DEF Current, Resting
<1>6. CASE late' = [late EXCEPT ![x].at = "owner"] /\ stream[late[x].sink] = late[x].stream
           /\ late[x].at = "sleep"
  BY <1>1, <1>2, <1>4, <1>6 DEF Current
<1> QED
  BY <1>3, <1>5, <1>6

LEMMA ScheduleCurrent ==
  ASSUME PathInv, Current, NEW x \in Sessions, PlaySchedule(x)
  PROVE  Current'
<1> DEFINE e == paths[ses[x].server][ses[x].path]
<1>1. e \in Listing
  BY DEF PathInv, PathTyped, PlaySchedule
<1>2. UNCHANGED <<stream, streams, open, holds, writer, foreign>>
  BY DEF PlaySchedule, sinkVars, streamVars
<1>3. \/ late' = late
      \/ /\ late' = [late EXCEPT ![x] = [at |-> "sleep", stream |-> e.stream, sink |-> e.onPlay]]
         /\ e.onPlay # Nobody
  BY DEF PlaySchedule
<1> HIDE DEF e
<1> QED
  BY <1>1, <1>2, <1>3 DEF Current, RacesHarmless, Listing

LEMMA SessionCurrent ==
  ASSUME LeaseInv, PathInv, Current, NEW x \in Sessions,
         Setup(x) \/ PlayRecord(x) \/ Announce(x) \/ SessionClose(x)
  PROVE  Current'
<1>1. streams \in Nat /\ \A t \in Sinks : stream[t] \in 0 .. streams
  BY DEF PathInv, PathTyped
<1>2. UNCHANGED <<stream, writer, late, foreign, holds>>
  BY DEF Setup, PlayRecord, Announce, SessionClose, sinkVars
<1>3. \/ streams' = streams /\ open' \subseteq open
      \/ streams' = streams + 1 /\ open' \subseteq open \cup {streams'}
  BY DEF Setup, PlayRecord, Announce, SessionClose, streamVars
<1>4. \A s \in Sinks : holds'[s] = "unlist" => holds[s] = "unlist"
  BY <1>2
<1> QED
  BY <1>1, <1>2, <1>3, <1>4, SameCurrent

LEMMA NextCurrent == LeaseInv /\ PathInv /\ Current /\ [Next]_vars => Current'
<1> SUFFICES ASSUME LeaseInv, PathInv, Current, [Next]_vars PROVE Current'
  OBVIOUS
<1>1. ASSUME NEW s \in Sinks,
             \/ StartShared(s) \/ StartFirst(s) \/ StartFails(s) \/ Configure(s) \/ RegisterPath(s)
             \/ ConfigureHalf(s) \/ StopNow(s) \/ Unlist(s) \/ ReleaseShared(s) \/ ReleaseLast(s)
             \/ CloseServer(s) \/ WriteBegin(s) \/ WriteVideo(s)
      PROVE  Current'
  BY <1>1, SinkCurrent, ConfigureCurrent, UnlistCurrent, WriterCurrent
<1>2. ASSUME NEW x \in Sessions,
             \/ Setup(x) \/ PlayRecord(x) \/ PlaySchedule(x) \/ Announce(x) \/ SessionClose(x)
             \/ LateOwner(x) \/ LateSend(x)
      PROVE  Current'
  BY <1>2, SessionCurrent, ScheduleCurrent, LateCurrent
<1>3. CASE UNCHANGED vars
  BY <1>3 DEF vars, sinkVars, streamVars, clientVars, Current, RacesHarmless
<1> QED
  BY <1>1, <1>2, <1>3 DEF Next

(* No interleaving of Configure, Stop, frames and the delayed parameter sets   *)
(* sends a media to a stream that has not got it, unless an earlier Configure  *)
(* that failed left the media behind (rtsp_sink.go:262, rtsp_server.go:30).   *)
THEOREM NoForeignMedia == Spec => []RacesHarmless
<1>1. Current => RacesHarmless
  BY DEF Current
<1> QED
  BY <1>1, InitLease, NextLease, InitPath, NextPath, InitCurrent, NextCurrent, PTL DEF Spec

-----------------------------------------------------------------------------
(* The sink configured last on a path: it is at the server its address has    *)
(* now, or at one that is about to be closed; and nobody but a publisher, who *)
(* closes the stream, takes its entry away.                                   *)
ReadyRuns ==
  /\ ready \in [Sinks -> BOOLEAN]
  /\ \A s \in Sinks : ready[s] => status[s] = "running" /\ holds[s] \in {"free", "register"}
  /\ \A s \in Sinks : holds[s] = "register" => status[s] = "running"

LatestTyped ==
  /\ latest \in [Servers -> [Paths -> Sinks \cup {Nobody}]]
  /\ \A k \in Servers, p \in Paths : latest[k][p] # Nobody => k <= made /\ PathOf[latest[k][p]] = p

Home ==
  \A k \in listening, p \in Paths : latest[k][p] # Nobody =>
    LET a == AddrOf[latest[k][p]]
    IN reg[a] = k \/ \E t \in Sinks : closing[t] = k /\ AddrOf[t] = a

Reached ==
  \A k \in Servers, p \in Paths : \A s \in Sinks :
    latest[k][p] = s /\ handler[s] = k /\ holds[s] = "free" /\ ready[s] /\ stream[s] \in open
      => paths[k][p].onPlay = s

LatestInv == ReadyRuns /\ LatestTyped /\ Home /\ Reached

LEMMA InitLatest == Init => LatestInv
  BY ServersAssumption
  DEF Init, LatestInv, ReadyRuns, LatestTyped, Home, Reached, Servers

LEMMA ListeningServers == ASSUME LeaseInv, PathInv PROVE listening \subseteq Servers
  BY ServersAssumption DEF LeaseInv, Typed, PathInv, PathTyped, Servers

LEMMA StartLatest ==
  ASSUME LeaseInv, PathInv, LatestInv, NEW s \in Sinks,
         StartShared(s) \/ StartFirst(s) \/ StartFails(s)
  PROVE  LatestInv'
<1> USE DEF LatestInv
<1>1. /\ UNCHANGED <<ready, latest, holds, stream, open, paths, closing>>
      /\ status[s] # "running" /\ holds[s] = "free" /\ \A t \in Sinks \ {s} : status'[t] = status[t]
      /\ \A t \in Sinks \ {s} : handler'[t] = handler[t]
  BY DEF StartShared, StartFirst, StartFails, MayStart, Free, Running, streamVars, LeaseInv, Typed
<1>2. ~ready[s]
  BY <1>1 DEF ReadyRuns
<1>3. ReadyRuns' /\ Reached'
  BY <1>1, <1>2 DEF ReadyRuns, Reached
<1>4. CASE UNCHANGED <<made, listening, reg>>
  BY <1>1, <1>3, <1>4 DEF LatestTyped, Home
<1>5. CASE StartFirst(s)
  <2>1. /\ made' = made + 1 /\ listening' = listening \cup {made + 1}
        /\ reg' = [reg EXCEPT ![AddrOf[s]] = made + 1] /\ reg[AddrOf[s]] = 0
    BY <1>5 DEF StartFirst
  <2>2. made \in Nat /\ reg \in [Addrs -> 0 .. made] /\ \A t \in Sinks : AddrOf[t] \in Addrs
    BY ServersAssumption DEF LeaseInv, Typed
  <2>3. LatestTyped'
    BY <1>1, <2>1, <2>2 DEF LatestTyped, Servers
  <2>4. Home'
    <3> SUFFICES ASSUME NEW k \in listening', NEW p \in Paths, latest[k][p] # Nobody
                 PROVE  \/ reg'[AddrOf[latest[k][p]]] = k
                        \/ \E t \in Sinks : closing[t] = k /\ AddrOf[t] = AddrOf[latest[k][p]]
      BY <1>1 DEF Home
    <3>1. made + 1 \in Servers
      BY <1>5, <2>2, ServersAssumption DEF StartFirst, Servers
    <3>2. k # made + 1 /\ k \in listening
      BY <2>1, <2>2, <3>1 DEF LatestTyped
    <3>3. k # 0 /\ k \in Servers
      BY <3>2, ListeningServers DEF Servers
    <3>4. latest[k][p] \in Sinks
      BY <3>3 DEF LatestTyped
    <3> QED
      BY <2>1, <2>2, <3>2, <3>3, <3>4 DEF Home
  <2> QED
    BY <1>3, <2>3, <2>4
<1> QED
  BY <1>4, <1>5 DEF StartShared, StartFails, managerVars

LEMMA ConfigureLatest ==
  ASSUME LeaseInv, PathInv, LatestInv, NEW s \in Sinks, Configure(s)
  PROVE  LatestInv'
<1> USE DEF LatestInv
<1>1. /\ stream' = [stream EXCEPT ![s] = streams + 1] /\ holds[s] = "free"
      /\ open' = (open \ {stream[s]}) \cup {streams + 1}
      /\ holds' = [holds EXCEPT ![s] = "register"]
      /\ UNCHANGED <<made, listening, reg, closing, ready, status, latest, handler, paths>>
  BY DEF Configure, CloseOld, Free, managerVars, clientVars
<1>2. holds \in [Sinks -> {"free", "register", "unlist", "release", "close"}]
  BY DEF LeaseInv, Typed
<1>3. streams \in Nat /\ stream \in [Sinks -> 0 .. streams]
  BY DEF PathInv, PathTyped
<1>4. status[s] = "running"
  BY DEF Configure, Free, LeaseInv, Phase
<1>5. ReadyRuns' /\ LatestTyped' /\ Home'
  BY <1>1, <1>2, <1>4 DEF ReadyRuns, LatestTyped, Home
<1>6. Reached'
  BY <1>1, <1>2, <1>3 DEF Reached
<1> QED
  BY <1>5, <1>6

LEMMA RegisterLatest ==
  ASSUME LeaseInv, PathInv, LatestInv, NEW s \in Sinks, RegisterPath(s)
  PROVE  LatestInv'
<1> USE DEF LatestInv
<1>1. /\ paths' = [paths EXCEPT ![handler[s]][PathOf[s]] =
                     [stream |-> stream[s], onPlay |-> s, publisher |-> Nobody, readers |-> {}]]
      /\ latest' = [latest EXCEPT ![handler[s]][PathOf[s]] = s]
      /\ ready' = [ready EXCEPT ![s] = TRUE]
      /\ holds' = [holds EXCEPT ![s] = "free"] /\ holds[s] = "register"
      /\ UNCHANGED <<made, listening, reg, closing, status, handler, stream, open>>
  BY DEF RegisterPath, managerVars
<1>2. /\ holds \in [Sinks -> {"free", "register", "unlist", "release", "close"}]
      /\ PathOf[s] \in Paths /\ AddrOf[s] \in Addrs /\ Nobody \notin Sinks
  BY ServersAssumption DEF LeaseInv, Typed
<1>3. handler[s] # 0 => status[s] = "running" /\ handler[s] = reg[AddrOf[s]] /\ handler[s] <= made
  BY <1>1, <1>2 DEF LeaseInv, Phase, Registered, Typed
<1>4. \A k \in Servers, p \in Paths :
        IF k = handler[s] /\ p = PathOf[s] THEN latest'[k][p] = s /\ paths'[k][p].onPlay = s
        ELSE latest'[k][p] = latest[k][p] /\ paths'[k][p] = paths[k][p]
  BY <1>1, <1>2 DEF LatestTyped, PathInv, PathTyped
<1>5. LatestTyped'
  <2>1. latest' \in [Servers -> [Paths -> Sinks \cup {Nobody}]]
    BY <1>1, <1>2 DEF LatestTyped
  <2> QED
    BY <1>1, <1>3, <1>4, <2>1 DEF LatestTyped, Servers
<1>6. Home'
  BY <1>1, <1>3, <1>4, ListeningServers DEF Home, Servers
<1>7. Reached'
  BY <1>1, <1>2, <1>4 DEF Reached, LatestTyped
<1>8. status[s] = "running"
  BY <1>1 DEF ReadyRuns
<1>9. ReadyRuns'
  BY <1>1, <1>2, <1>8 DEF ReadyRuns
<1> QED
  BY <1>5, <1>6, <1>7, <1>9

LEMMA StopLatest ==
  ASSUME LeaseInv, PathInv, LatestInv, NEW s \in Sinks, StopNow(s) \/ ConfigureHalf(s)
  PROVE  LatestInv'
<1> USE DEF LatestInv
<1>1. /\ UNCHANGED <<made, listening, reg, closing, latest, handler, stream, paths>>
      /\ open' \subseteq open /\ holds[s] = "free"
      /\ \A t \in Sinks \ {s} : /\ ready'[t] = ready[t] /\ status'[t] = status[t]
                                /\ holds'[t] = holds[t]
      /\ ready' \in [Sinks -> BOOLEAN] /\ holds'[s] # "register"
      /\ ~ready'[s] \/ UNCHANGED <<ready, status, holds>>
  BY DEF StopNow, ConfigureHalf, Free, managerVars, LeaseInv, Typed, ReadyRuns
<1>2. ReadyRuns' /\ LatestTyped' /\ Home'
  BY <1>1 DEF ReadyRuns, LatestTyped, Home
<1>3. Reached'
  BY <1>1 DEF Reached
<1> QED
  BY <1>2, <1>3

LEMMA UnlistLatest ==
  ASSUME LeaseInv, PathInv, LatestInv, NEW s \in Sinks, Unlist(s)
  PROVE  LatestInv'
<1> USE DEF LatestInv
<1>1. /\ stream' = [stream EXCEPT ![s] = 0] /\ handler' = [handler EXCEPT ![s] = 0]
      /\ holds' = [holds EXCEPT ![s] = "release"] /\ holds[s] = "unlist"
      /\ UNCHANGED <<made, listening, reg, closing, ready, status, latest, open>>
      /\ paths' = IF OwnPath(s) THEN [paths EXCEPT ![handler[s]][PathOf[s]] = NoPath] ELSE paths
  BY DEF Unlist, managerVars
<1>2. /\ holds \in [Sinks -> {"free", "register", "unlist", "release", "close"}]
      /\ PathOf[s] \in Paths /\ handler \in [Sinks -> 0 .. made]
      /\ stream \in [Sinks -> 0 .. streams]
  BY ServersAssumption DEF LeaseInv, Typed, PathInv, PathTyped
<1>3. \A k \in Servers, p \in Paths :
        \/ paths'[k][p] = paths[k][p]
        \/ k = handler[s] /\ p = PathOf[s] /\ paths[k][p].stream = stream[s]
  BY <1>1, <1>2 DEF OwnPath, PathInv, PathTyped
<1>4. ReadyRuns' /\ LatestTyped' /\ Home'
  BY <1>1, <1>2 DEF ReadyRuns, LatestTyped, Home
<1>5. Reached'
  <2> SUFFICES ASSUME NEW k \in Servers, NEW p \in Paths, NEW t \in Sinks, t # s,
                      latest[k][p] = t, handler[t] = k, holds[t] = "free", ready[t],
                      stream[t] \in open
               PROVE  paths'[k][p].onPlay = t
    BY <1>1, <1>2 DEF Reached
  <2>1. paths[k][p].onPlay = t
    BY DEF Reached
  <2>2. paths[k][p].stream = stream[t] /\ stream[t] # 0
    BY <2>1 DEF PathInv, Listed
  <2>3. stream[t] # stream[s]
    BY <2>2 DEF PathInv, SinksApart
  <2> QED
    BY <1>3, <2>1, <2>2, <2>3
<1> QED
  BY <1>4, <1>5

LEMMA ReleaseLatest ==
  ASSUME LeaseInv, PathInv, LatestInv, NEW s \in Sinks,
         ReleaseShared(s) \/ ReleaseLast(s) \/ CloseServer(s)
  PROVE  LatestInv'
<1> USE DEF LatestInv
<1>1. /\ UNCHANGED <<made, ready, status, latest, handler, stream, open, paths>>
      /\ holds[s] \in {"release", "close"} /\ \A t \in Sinks \ {s} : holds'[t] = holds[t]
      /\ holds'[s] \in {"free", "close"}
  BY DEF ReleaseShared, ReleaseLast, CloseServer, streamVars, LeaseInv, Typed
<1>2. handler[s] = 0 /\ ~ready[s]
  BY <1>1 DEF LeaseInv, Phase, ReadyRuns
<1>3. ReadyRuns' /\ LatestTyped' /\ Reached'
  BY <1>1, <1>2 DEF ReadyRuns, LatestTyped, Reached, Servers
<1>4. Home'
  <2>1. CASE ReleaseShared(s)
    BY <1>1, <2>1 DEF ReleaseShared, Home
  <2>2. CASE ReleaseLast(s)
    <3>1. /\ reg' = [reg EXCEPT ![AddrOf[s]] = 0] /\ closing' = [closing EXCEPT ![s] = reg[AddrOf[s]]]
          /\ listening' = listening /\ holds[s] = "release"
      BY <2>2 DEF ReleaseLast, Unregister
    <3>2. /\ closing \in [Sinks -> 0 .. made] /\ reg \in [Addrs -> 0 .. made]
          /\ AddrOf[s] \in Addrs
      BY ServersAssumption DEF LeaseInv, Typed
    <3>3. closing[s] = 0
      BY <3>1 DEF LeaseInv, Phase
    <3>4. \A k \in listening : k # 0
      BY ListeningServers DEF Servers
    <3> QED
      BY <1>1, <3>1, <3>2, <3>3, <3>4 DEF Home
  <2>3. CASE CloseServer(s)
    <3>1. /\ listening' = listening \ {closing[s]} /\ closing' = [closing EXCEPT ![s] = 0]
          /\ reg' = reg /\ closing \in [Sinks -> 0 .. made]
      BY <2>3 DEF CloseServer, LeaseInv, Typed
    <3> QED
      BY <1>1, <3>1 DEF Home
  <2> QED
    BY <2>1, <2>2, <2>3
<1> QED
  BY <1>3, <1>4

LEMMA WriterLatest ==
  ASSUME LatestInv, UNCHANGED <<made, listening, reg, closing, ready, status, latest, handler,
                                stream, open, paths, holds>>
  PROVE  LatestInv'
  BY DEF LatestInv, ReadyRuns, LatestTyped, Home, Reached

LEMMA SessionLatest ==
  ASSUME LeaseInv, PathInv, LatestInv, NEW x \in Sessions,
         Setup(x) \/ PlayRecord(x) \/ PlaySchedule(x) \/ Announce(x) \/ SessionClose(x)
  PROVE  LatestInv'
<1> USE DEF LatestInv
<1>1. UNCHANGED <<made, listening, reg, closing, ready, status, latest, handler, stream, holds>>
  BY DEF Setup, PlayRecord, PlaySchedule, Announce, SessionClose, managerVars, sinkVars
<1>2. ReadyRuns' /\ LatestTyped' /\ Home'
  BY <1>1 DEF ReadyRuns, LatestTyped, Home
<1>3. Reached'
  <2> SUFFICES ASSUME NEW k \in Servers, NEW p \in Paths, NEW s \in Sinks,
                      latest[k][p] = s, handler[s] = k, holds[s] = "free", ready[s],
                      stream[s] \in open'
               PROVE  paths'[k][p].onPlay = s
    BY <1>1 DEF Reached
  <2>1. stream[s] \in 0 .. streams /\ streams \in Nat /\ paths[k][p] \in Listing /\ Nobody \notin Sessions
    BY ServersAssumption DEF PathInv, PathTyped
  <2>2. stream[s] \in open
    <3>1. CASE Setup(x) \/ PlaySchedule(x)
      BY <3>1 DEF Setup, PlaySchedule, streamVars
    <3>2. CASE PlayRecord(x)
      <4>1. open' = open
        BY <3>2 DEF PlayRecord
      <4> QED
        BY <4>1
    <3>3. CASE Announce(x)
      <4>1. PICK n : open' = (open \ {n}) \cup {streams + 1}
        BY <3>3 DEF Announce
      <4>2. stream[s] # streams + 1
        BY <2>1
      <4> QED
        BY <4>1, <4>2
    <3>4. CASE SessionClose(x)
      <4>1. open' \subseteq open
        BY <3>4 DEF SessionClose
      <4> QED
        BY <4>1
    <3> QED
      BY <3>1, <3>2, <3>3, <3>4
  <2>3. paths[k][p].onPlay = s
    BY <2>2 DEF Reached
  <2>4. paths[k][p].stream = stream[s] /\ paths[k][p].publisher = Nobody
    BY <2>3 DEF PathInv, Listed
  <2>5. CASE Setup(x) \/ PlaySchedule(x)
    BY <2>3, <2>5 DEF Setup, PlaySchedule, streamVars
  <2>6. CASE PlayRecord(x)
    <3>1. \/ paths'[k][p] = paths[k][p]
          \/ paths'[k][p] = [paths[k][p] EXCEPT !.readers = @ \cup {x}]
      BY <2>6 DEF PlayRecord, PathInv, PathTyped
    <3> QED
      BY <2>1, <2>3, <3>1 DEF Listing
  <2>7. CASE Announce(x)
    <3>1. PICK l \in listening, q \in Paths :
            /\ open' = (open \ {paths[l][q].stream}) \cup {streams + 1}
            /\ paths' = [paths EXCEPT ![l][q] = [stream |-> streams + 1, onPlay |-> Nobody,
                                                 publisher |-> x, readers |-> {}]]
      BY <2>7 DEF Announce
    <3>2. ~(l = k /\ q = p)
      BY <2>1, <2>4, <3>1
    <3>3. paths'[k][p] = paths[k][p]
      BY <3>1, <3>2 DEF PathInv, PathTyped
    <3> QED
      BY <2>3, <3>3
  <2>8. CASE SessionClose(x)
    <3>1. paths'[k][p] = paths[k][p] \/ paths'[k][p] = Without(paths[k][p], x)
      BY <2>1, <2>4, <2>8 DEF SessionClose, PathInv, PathTyped
    <3> QED
      BY <2>1, <2>3, <3>1 DEF Listing, Without
  <2> QED
    BY <2>5, <2>6, <2>7, <2>8
<1> QED
  BY <1>2, <1>3

LEMMA NextLatest == LeaseInv /\ PathInv /\ LatestInv /\ [Next]_vars => LatestInv'
<1> SUFFICES ASSUME LeaseInv, PathInv, LatestInv, [Next]_vars PROVE LatestInv'
  OBVIOUS
<1>1. ASSUME NEW s \in Sinks,
             \/ StartShared(s) \/ StartFirst(s) \/ StartFails(s) \/ Configure(s) \/ RegisterPath(s)
             \/ ConfigureHalf(s) \/ StopNow(s) \/ Unlist(s) \/ ReleaseShared(s) \/ ReleaseLast(s)
             \/ CloseServer(s)
      PROVE  LatestInv'
  BY <1>1, StartLatest, ConfigureLatest, RegisterLatest, StopLatest, UnlistLatest, ReleaseLatest
<1>2. ASSUME NEW s \in Sinks, WriteBegin(s) \/ WriteVideo(s)
      PROVE  LatestInv'
  BY <1>2, WriterLatest DEF WriteBegin, WriteVideo, managerVars, sinkVars, streamVars
<1>3. ASSUME NEW x \in Sessions,
             Setup(x) \/ PlayRecord(x) \/ PlaySchedule(x) \/ Announce(x) \/ SessionClose(x)
      PROVE  LatestInv'
  BY <1>3, SessionLatest
<1>4. ASSUME NEW x \in Sessions, LateOwner(x) \/ LateSend(x)
      PROVE  LatestInv'
  BY <1>4, WriterLatest DEF LateOwner, LateSend, managerVars, sinkVars, streamVars
<1>5. CASE UNCHANGED vars
  BY <1>5, WriterLatest DEF vars, managerVars, sinkVars, streamVars
<1> QED
  BY <1>1, <1>2, <1>3, <1>4, <1>5 DEF Next

(* The sink configured last on a path stays reachable there while it runs and  *)
(* its stream is open: neither the Stop of an older sink with the same path   *)
(* nor the close of a server takes its entry away (rtsp_sink.go, Stop).       *)
THEOREM LatestStays == Spec => []LatestReachable
<1>1. LeaseInv /\ PathInv /\ LatestInv => LatestReachable
  <2> SUFFICES ASSUME LeaseInv, PathInv, LatestInv, NEW k \in listening, NEW p \in Paths,
                      NEW s \in Sinks, latest[k][p] = s, holds[s] = "free",
                      status[s] = "running", ready[s], stream[s] \in open
               PROVE  paths[k][p].onPlay = s
    BY ListeningServers DEF LatestReachable, Free, LatestInv, LatestTyped
  <2>1. k \in Servers /\ k # 0 /\ AddrOf[s] \in Addrs /\ s # Nobody
    BY ListeningServers, ServersAssumption DEF Servers
  <2>2. handler[s] # 0 /\ handler[s] = reg[AddrOf[s]]
    BY DEF LeaseInv, Phase, Registered
  <2>3. reg[AddrOf[s]] = k
    BY <2>1, <2>2 DEF LatestInv, Home, LeaseInv, Apart
  <2> QED
    BY <2>1, <2>2, <2>3 DEF LatestInv, Reached
<1> QED
  BY <1>1, InitLease, NextLease, InitPath, NextPath, InitLatest, NextLatest, PTL DEF Spec
=============================================================================
