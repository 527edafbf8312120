----------------------------- MODULE LiveUpdates -----------------------------
(***************************************************************************)
(* One channel of the ConnectionManager: the set of its sockets, over      *)
(* which each broadcast iterates, awaiting every send, while coroutines    *)
(* of other sockets and broadcasts change the set.  A set that has         *)
(* another size when the iterator is asked for its next member makes it    *)
(* raise, and the broadcast ends there.  (The handlers that should start   *)
(* broadcasts are not coroutines: asyncio.create_task raises in them after *)
(* their commit.  The broadcast that runs is the one of the shutdown.)     *)
(***************************************************************************)
EXTENDS Naturals, FiniteSets

CONSTANTS Socket, Broadcast, NoSocket

ASSUME SocketAssumption == NoSocket \notin Socket /\ IsFiniteSet(Socket)

VARIABLES
    subscribed,   \* active_connections[channel]
    link,         \* [Socket -> "new", "open", "gone" (client left), "ended" (no handler)]
    cast,         \* [Broadcast -> where its loop is]
    disturbed     \* broadcasts under which another coroutine resized the set

liveVars == <<subscribed, link, cast, disturbed>>

NotStarted == [step |-> "none", size |-> 0, first |-> {}, sent |-> {}, failed |-> {}, to |-> NoSocket]

LiveInit ==
    /\ subscribed = {} /\ disturbed = {}
    /\ link = [s \in Socket |-> "new"]
    /\ cast = [b \in Broadcast |-> NotStarted]

Looping(b) == cast[b].step \in {"next", "sending"}
DisturbOthers(b) == disturbed' = disturbed \union {c \in Broadcast \ {b} : Looping(c)}
DisturbAll == disturbed' = disturbed \union {c \in Broadcast : Looping(c)}

\* manager.connect, after the accept it waits for.
Connect(s) ==
    /\ link[s] = "new" /\ link' = [link EXCEPT ![s] = "open"]
    /\ subscribed' = subscribed \union {s} /\ DisturbAll
    /\ UNCHANGED cast

\* websocket_logs accepts its socket before connect accepts it again, which
\* raises: a log stream never joins its channel.
LogStreamFails(s) ==
    /\ link[s] = "new" /\ link' = [link EXCEPT ![s] = "ended"]
    /\ UNCHANGED <<subscribed, cast, disturbed>>

ClientLeaves(s) ==
    /\ link[s] = "open" /\ link' = [link EXCEPT ![s] = "gone"]
    /\ UNCHANGED <<subscribed, cast, disturbed>>

\* receive_text raises WebSocketDisconnect, and the handler disconnects.
HandlerDisconnects(s) ==
    /\ link[s] = "gone" /\ link' = [link EXCEPT ![s] = "ended"]
    /\ subscribed' = subscribed \ {s}
    /\ IF s \in subscribed THEN DisturbAll ELSE UNCHANGED disturbed
    /\ UNCHANGED cast

\* Any other exception (a message that is no JSON, a pong that cannot be
\* sent) ends the handler and leaves its socket in the set.
HandlerFails(s) ==
    /\ link[s] \in {"open", "gone"} /\ link' = [link EXCEPT ![s] = "ended"]
    /\ UNCHANGED <<subscribed, cast, disturbed>>

\* The lifespan of the application, on its way out, tells all subscribers.
BeginBroadcast(b) ==
    /\ cast[b].step = "none"
    /\ cast' = [cast EXCEPT ![b] = [NotStarted EXCEPT !.step = "next", !.size = Cardinality(subscribed),
                                                      !.first = subscribed]]
    /\ UNCHANGED <<subscribed, link, disturbed>>

\* The next member of the set; members that joined later may be passed over.
SendNext(b) ==
    /\ cast[b].step = "next" /\ Cardinality(subscribed) = cast[b].size
    /\ \E s \in subscribed \ cast[b].sent :
          cast' = [cast EXCEPT ![b].step = "sending", ![b].to = s, ![b].sent = @ \union {s}]
    /\ UNCHANGED <<subscribed, link, disturbed>>

\* Sockets that cannot be sent to are noted, and removed after the loop.
RemovedAtOnce(s) == subscribed \ {s}
RemovedLater(s) == subscribed

SendEnds(b) ==
    LET s == cast[b].to IN
    /\ cast[b].step = "sending"
    /\ \/ /\ link[s] # "ended"
          /\ cast' = [cast EXCEPT ![b].step = "next"] /\ UNCHANGED subscribed
       \/ /\ cast' = [cast EXCEPT ![b].step = "next", ![b].failed = @ \union {s}]
          /\ subscribed' = RemovedLater(s)
    /\ UNCHANGED <<link, disturbed>>

EndBroadcast(b) ==
    /\ cast[b].step = "next" /\ Cardinality(subscribed) = cast[b].size
    /\ cast[b].first \intersect subscribed \subseteq cast[b].sent
    /\ cast' = [cast EXCEPT ![b].step = "done"]
    /\ subscribed' = subscribed \ cast[b].failed
    /\ IF subscribed' # subscribed THEN DisturbOthers(b) ELSE UNCHANGED disturbed
    /\ UNCHANGED link

BreakOff(b) ==
    /\ cast[b].step = "next" /\ Cardinality(subscribed) # cast[b].size
    /\ cast' = [cast EXCEPT ![b].step = "broken"]
    /\ UNCHANGED <<subscribed, link, disturbed>>

LiveNext ==
    \/ \E s \in Socket : \/ Connect(s) \/ LogStreamFails(s) \/ ClientLeaves(s)
                         \/ HandlerDisconnects(s) \/ HandlerFails(s)
    \/ \E b \in Broadcast : \/ BeginBroadcast(b) \/ SendNext(b) \/ SendEnds(b)
                            \/ EndBroadcast(b) \/ BreakOff(b)

LiveSpec == LiveInit /\ [][LiveNext]_liveVars

-----------------------------------------------------------------------------
(* Properties. *)

LiveTypeOK ==
    /\ subscribed \subseteq Socket /\ disturbed \subseteq Broadcast
    /\ link \in [Socket -> {"new", "open", "gone", "ended"}]
    /\ \A b \in Broadcast :
          /\ cast[b].step \in {"none", "next", "sending", "done", "broken"}
          /\ cast[b].size \in 0 .. Cardinality(Socket)
          /\ cast[b].first \subseteq Socket /\ cast[b].sent \subseteq Socket
          /\ cast[b].failed \subseteq cast[b].sent /\ cast[b].to \in Socket \union {NoSocket}

\* A broadcast breaks off only when another coroutine resized the set under
\* it, never by what it removes itself; one that no other touched has tried
\* every socket it began with.
BroadcastIsNotItsOwnEnemy ==
    \A b \in Broadcast :
        /\ cast[b].step = "broken" => b \in disturbed
        /\ cast[b].step = "done" /\ b \notin disturbed => cast[b].first = cast[b].sent
=============================================================================
