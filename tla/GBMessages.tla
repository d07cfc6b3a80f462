------------------------------ MODULE GBMessages ------------------------------
(***************************************************************************)
(* What a GB28181 output answers to the MESSAGE and SUBSCRIBE requests of    *)
(* its platform, and the NOTIFY requests it sends                            *)
(* (src/server/internal/gb28181/device: server.go handleMessage, manscdp.go, *)
(* control.go, config.go, snapshot.go, upgrade.go, subscribe.go).            *)
(*                                                                           *)
(* A request is its kind, with the number of entries of the list it asks     *)
(* for; an answer is the request's number and what it says.  Every receive   *)
(* goroutine (the UDP socket, a connection) handles one request at a time.   *)
(***************************************************************************)
EXTENDS Naturals, Sequences, FiniteSets

CONSTANTS Receivers,    \* receive goroutines
          Requests,     \* requests the platform may send
          Installed,    \* kinds of commands that have a callback or an executor
          PageItems,    \* responsePageItems
          Events, Position,  \* subjects of subscriptions; MobilePosition
          HasSource,    \* a position source is installed
          MaxRequests   \* bound: requests of the platform

VARIABLES
  received,        \* requests so far; a request is known by its number
  pc, doing, todo, \* of each receiver: where it is, its request, the answers left
  old,             \* of each receiver: the report loop it replaced
  said,            \* history: the answers to each request on the wire, in order
  finished,        \* history: the requests handled to the end
  jobs,            \* running exchanges (snapshot, upgrade, broadcast)
  subs,            \* the registry: none, or the dialog, its next CSeq and its deadline
  current, loops, cancelled, \* positionCancel; the report loops; the closed channels
  stopped

vars == <<received, pc, doing, todo, old, said, finished, jobs, subs, current, loops, cancelled, stopped>>
handling == <<received, pc, doing, todo, old, finished>>
reports == <<current, loops, cancelled>>
-----------------------------------------------------------------------------
(* The answers.  A response carries the entries it lists and the total.       *)
OK200 == [says |-> "200", from |-> 0, to |-> 0, total |-> 0]
Response(result) == [says |-> result, from |-> 0, to |-> 0, total |-> 0]

(* Mutant: a list that fills its pages exactly gets an empty one after them.  *)
PagesOneMore(total) ==
  [i \in 1 .. total \div PageItems + 1 |->
     [says |-> "page", total |-> total, from |-> (i - 1) * PageItems + 1,
      to |-> IF i * PageItems < total THEN i * PageItems ELSE total]]

(* The pages of a list: an empty list of recordings is one empty page.        *)
Pages(total) ==
  LET count == IF total = 0 THEN 1 ELSE (total + PageItems - 1) \div PageItems
  IN [i \in 1 .. count |->
        [says |-> "page", total |-> total, from |-> (i - 1) * PageItems + 1,
         to |-> IF i * PageItems < total THEN i * PageItems ELSE total]]

Verdict(kind) == IF kind \in Installed THEN Response("OK") ELSE Response("ERROR")

(* handleMessage with DispatchInboundMessage.  (A MESSAGE without a body gets *)
(* no 200: the dispatcher returns an empty answer, which goes out as a 500.)  *)
AnswersTo(r) ==
  CASE r.kind = "empty" -> <<Response("500")>>
    [] r.kind \in {"catalog", "records"} -> <<OK200>> \o Pages(r.items)
    [] r.kind \in {"info", "status", "download"} -> <<OK200, Response("OK")>>
    [] r.kind \in {"control", "config", "snapshot", "homeposition"} -> <<OK200, Verdict(r.kind)>>
    [] r.kind = "upgrade" -> IF "upgrade" \in Installed THEN <<OK200>> ELSE <<OK200, Response("ERROR")>>
    [] r.kind = "subscribe" -> <<OK200>>
    [] OTHER -> <<OK200>>   \* broadcast, keepalive, unknown and unreadable bodies

(* The exchanges that go on in a goroutine of their own.                      *)
Exchange(r) == r.kind = "broadcast" \/ (r.kind \in {"snapshot", "upgrade"} /\ r.kind \in Installed)
-----------------------------------------------------------------------------
(* One more answer to request i; a socket that is closed takes nothing.       *)
Say(i, answer) == said' = IF stopped THEN said ELSE [said EXCEPT ![i] = Append(@, answer)]

NoSub == [dialog |-> 0, cseq |-> 0, live |-> FALSE]
Idle(h) == pc[h] = "idle"

Init ==
  /\ received = 0 /\ pc = [h \in Receivers |-> "idle"]
  /\ doing = [h \in Receivers |-> [n |-> 0, kind |-> "none", items |-> 0]]
  /\ todo = [h \in Receivers |-> <<>>] /\ old = [h \in Receivers |-> 0]
  /\ said = [i \in 1 .. MaxRequests |-> <<>>] /\ finished = {} /\ jobs = {}
  /\ subs = [e \in Events |-> NoSub]
  /\ current = 0 /\ loops = [i \in 1 .. MaxRequests |-> "none"] /\ cancelled = {}
  /\ stopped = FALSE

(* A request arrives.  A SUBSCRIBE is booked first, whatever it replaces; an  *)
(* Expires of 0 counts as the default.                                        *)
Receive(h, r) ==
  /\ ~stopped /\ Idle(h) /\ received < MaxRequests
  /\ received' = received + 1
  /\ doing' = [doing EXCEPT ![h] = [n |-> received + 1, kind |-> r.kind, items |-> r.items]]
  /\ todo' = [todo EXCEPT ![h] = AnswersTo(r)]
  /\ IF r.kind = "subscribe" /\ r.event \in Events
     THEN /\ subs' = [subs EXCEPT ![r.event] =
                        [dialog |-> received + 1, cseq |-> r.cseq + 1, live |-> TRUE]]
          /\ pc' = [pc EXCEPT ![h] = IF r.event = Position /\ HasSource THEN "swap" ELSE "send"]
     ELSE pc' = [pc EXCEPT ![h] = "send"] /\ UNCHANGED subs
  /\ UNCHANGED <<old, said, finished, jobs, reports, stopped>>

(* restartPositionLoop: the new channel is put in place under the lock ...    *)
SwapLoop(h) ==
  /\ pc[h] = "swap" /\ pc' = [pc EXCEPT ![h] = "close"]
  /\ old' = [old EXCEPT ![h] = current] /\ current' = doing[h].n
  /\ UNCHANGED <<received, doing, todo, said, finished, jobs, subs, loops, cancelled, stopped>>

(* Mutant: the channel to close is looked up after the unlock.                *)
ReplacedCurrent(h) == current

(* ... and the old one is closed after it.                                    *)
Replaced(h) == old[h]

CloseOld(h) ==
  /\ pc[h] = "close" /\ pc' = [pc EXCEPT ![h] = "send"]
  /\ cancelled' = cancelled \cup {Replaced(h)}
  /\ loops' = [loops EXCEPT ![doing[h].n] = "running"]
  /\ UNCHANGED <<received, doing, todo, old, said, finished, jobs, subs, current, stopped>>

(* One answer.  The pages after the first wait 50 ms, and a server that stops *)
(* drops them.                                                                *)
Send(h) ==
  /\ pc[h] = "send" /\ todo[h] # <<>>
  /\ Say(doing[h].n, Head(todo[h]))
  /\ todo' = [todo EXCEPT ![h] = IF stopped /\ Head(@).says = "page" THEN <<>> ELSE Tail(@)]
  /\ UNCHANGED <<received, pc, doing, old, finished, jobs, subs, reports, stopped>>

Finish(h) ==
  /\ pc[h] = "send" /\ todo[h] = <<>> /\ pc' = [pc EXCEPT ![h] = "idle"]
  /\ finished' = IF stopped THEN finished ELSE finished \cup {doing[h]}
  /\ jobs' = IF Exchange(doing[h]) THEN jobs \cup {doing[h].n} ELSE jobs
  /\ UNCHANGED <<received, doing, todo, old, said, subs, reports, stopped>>

(* An exchange ends well or not; its result is a MESSAGE of its own.          *)
ExchangeEnds(j) ==
  /\ j \in jobs /\ jobs' = jobs \ {j}
  /\ \E result \in {"done", "failed"} : Say(j, Response(result))
  /\ UNCHANGED <<handling, subs, reports, stopped>>
-----------------------------------------------------------------------------
(* sendNotify: nothing without a live subscription; its CSeq moves on.        *)
Notify(e) ==
  /\ subs[e].live
  /\ subs' = [subs EXCEPT ![e].cseq = @ + 1]
  /\ Say(subs[e].dialog, [Response("notify") EXCEPT !.from = subs[e].cseq])

(* The host's SendAlarm, SendCatalogChange and SendMobilePosition.            *)
HostNotify(e) == Notify(e) /\ subs[e].cseq < MaxRequests + 2 /\ UNCHANGED <<handling, jobs, reports, stopped>>

Report(i) ==
  /\ loops[i] = "running" /\ i \notin cancelled
  /\ Notify(Position) /\ subs[Position].cseq < MaxRequests + 2
  /\ UNCHANGED <<handling, jobs, reports, stopped>>

LoopEnds(i) ==
  /\ loops[i] = "running" /\ i \in cancelled /\ loops' = [loops EXCEPT ![i] = "ended"]
  /\ UNCHANGED <<handling, said, jobs, subs, current, cancelled, stopped>>

(* A subscription passes its deadline; the next reader drops it.              *)
Expire(e) ==
  /\ subs[e].live /\ subs' = [subs EXCEPT ![e] = NoSub]
  /\ UNCHANGED <<handling, said, jobs, reports, stopped>>

(* Stop closes the sockets; the report loop is not told.                      *)
Stop ==
  /\ ~stopped /\ stopped' = TRUE
  /\ UNCHANGED <<handling, said, jobs, subs, reports>>

Next ==
  \/ \E h \in Receivers :
       \/ \E r \in Requests : Receive(h, r)
       \/ SwapLoop(h) \/ CloseOld(h) \/ Send(h) \/ Finish(h)
  \/ \E j \in jobs : ExchangeEnds(j)
  \/ \E e \in Events : HostNotify(e) \/ Expire(e)
  \/ \E i \in DOMAIN loops : Report(i) \/ LoopEnds(i)
  \/ Stop

Spec == Init /\ [][Next]_vars
-----------------------------------------------------------------------------
TypeOK ==
  /\ received \in 0 .. MaxRequests
  /\ pc \in [Receivers -> {"idle", "swap", "close", "send"}]
  /\ jobs \subseteq 1 .. MaxRequests /\ cancelled \subseteq 0 .. MaxRequests
  /\ current \in 0 .. MaxRequests /\ stopped \in BOOLEAN

(* A list has arrived as pages, behind the 200, that hold each entry once and *)
(* in order, none of them empty unless the list is.                           *)
ListComplete(all, total) ==
  /\ Len(all) > 1 /\ all[1] = OK200 /\ all[Len(all)].to = total
  /\ \A i \in 2 .. Len(all) :
       /\ all[i].says = "page" /\ all[i].total = total
       /\ all[i].from = IF i = 2 THEN 1 ELSE all[i - 1].to + 1
       /\ total > 0 => all[i].to \in all[i].from .. all[i].from + PageItems - 1

(* Of the answers one is a verdict, and it is OK if the command was executed. *)
OneVerdict(all, executed) ==
  \E v \in DOMAIN all :
    /\ all[v].says = (IF executed THEN "OK" ELSE "ERROR")
    /\ \A i \in DOMAIN all : all[i].says \in {"OK", "ERROR"} => i = v

(* A request that was handled to the end has its whole answer                 *)
(* (manscdp.go:725-737, server.go:2051-2157).                                 *)
AnswersComplete ==
  \A r \in finished :
    /\ r.kind \in {"catalog", "records"} => ListComplete(said[r.n], r.items)
    /\ r.kind \in {"control", "config", "snapshot", "homeposition"} =>
         OneVerdict(said[r.n], r.kind \in Installed)

(* However the SUBSCRIBEs of two connections interleave, the last one has the *)
(* only report loop that goes on (subscribe.go:432-460).                      *)
OnePositionLoop ==
  /\ \A i \in DOMAIN loops :
       loops[i] = "running" /\ i \notin cancelled =>
         i = current \/ \E h \in Receivers : pc[h] = "close" /\ old[h] = i
  /\ current \notin cancelled
  /\ (\A h \in Receivers : pc[h] \notin {"swap", "close"}) /\ current # 0 => loops[current] = "running"

(* A MESSAGE without a body is acknowledged (manscdp.go:736-739).             *)
EmptyAcknowledged == \A r \in finished : r.kind = "empty" => said[r.n] = <<OK200>>
=============================================================================
