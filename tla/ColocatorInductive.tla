------------------------- MODULE ColocatorInductive -------------------------
(***************************************************************************)
(* The inductive invariant of Colocator: why the unlocked snapshot, the    *)
(* late pop and the stack-allocated records are safe together.  Everything *)
(* is said with three counts per client: the calls it has pushed, the real *)
(* calls the scheduler has made for it, and the records it has popped.     *)
(***************************************************************************)
EXTENDS Colocator

Pushed(c) == IF cpc[c] = "pushing" THEN submitted[c] - 1 ELSE submitted[c]

Made(c) ==
    IF pick = c /\ spc \in {"event", "store", "account"} THEN issued[c] + 1 ELSE issued[c]

Popped(c) == IF pick = c /\ spc = "pop" THEN issued[c] - 1 ELSE issued[c]

\* c's record is between its real call and its state store.
InService(c) == pick = c /\ spc \in {"event", "store"}

\* The queue holds, in order, exactly the ids pushed and not popped.
QueueInv(c) ==
    /\ Len(q[c]) = Pushed(c) - Popped(c)
    /\ \A i \in 1 .. Len(q[c]) : q[c][i] = Popped(c) + i - 1

\* Outside a call everything submitted has been served; inside one all but
\* the last call has.
OutsideInv(c) ==
    cpc[c] \in {"running", "exited"} =>
      /\ rec[c] = NoCall
      /\ Made(c) = submitted[c]
      /\ pending_sync[c] = Null
      /\ ~InService(c)

Unserved(c) ==
    /\ Made(c) = submitted[c] - 1
    /\ rec[c].state = QUEUED
    /\ pending_sync[c] = Null

Served(c) ==
    /\ Made(c) = submitted[c]
    /\ rec[c].state = QUEUED
    /\ InService(c)
    /\ IF final_state = Null
       THEN pending_sync[c] = rec[c].op_id
       ELSE pending_sync[c] = Null /\ final_state = WaitState(rec[c].kind)

Parked(c) ==
    /\ Made(c) = submitted[c]
    /\ rec[c].state = QUEUED
    /\ ~InService(c)
    /\ pending_sync[c] = rec[c].op_id

Released(c) ==
    /\ Made(c) = submitted[c]
    /\ rec[c].state = WaitState(rec[c].kind)
    /\ ~InService(c)
    /\ pending_sync[c] = Null

InsideInv(c) ==
    /\ InCall(c) => /\ submitted[c] >= 1 /\ rec[c].op_id = submitted[c] - 1
                    /\ rec[c].kind \in Kinds
    /\ cpc[c] = "pushing" => Unserved(c)
    /\ cpc[c] = "spinning" => Unserved(c) \/ Served(c) \/ Parked(c) \/ Released(c)
    /\ pending_sync[c] # Null => rec[c].kind \in {"Memcpy", "Memset", "StreamSync"}

\* What the scheduler's snapshot still says truly when it is used.
HeadInv(c) ==
    heads[c] # Null =>
      /\ spc \in {"peek", "pick", "call"} =>
           heads[c] = issued[c] /\ cpc[c] = "spinning" /\ Unserved(c)
      /\ spc \in {"event", "store", "account"} /\ pick = c => heads[c] = issued[c]
      /\ spc \in {"event", "store"} /\ pick = c => cpc[c] = "spinning" /\ Served(c)

SchedInv ==
    /\ spc \notin {"poll", "advance", "peek", "drain"} => scan = 0
    /\ spc \in {"call", "event", "store", "account", "pop"} <=> pick # Null
    /\ pick # Null => heads[pick] # Null
    /\ spc \in {"loop", "poll", "advance", "drain", "exited"} => \A c \in Client : heads[c] = Null
    /\ spc = "pop" => issued[pick] >= 1
    /\ spc \notin {"event", "store"} => final_state = Null

\* The log is the list of replayed calls; the stream holds some of them.
LogInv(c) ==
    /\ Len(log[c]) = issued[c]
    /\ \A i \in 1 .. Len(log[c]) : log[c][i] = i - 1
    /\ \A i \in 1 .. Len(stream[c]) : stream[c][i] < Made(c)
    /\ \A i, j \in 1 .. Len(stream[c]) : i < j => stream[c][i] < stream[c][j]

\* A drained stream stays drained until its client's next call.
DrainInv(c) ==
    /\ rec[c].state = DONE /\ rec[c].ret = "success" /\ rec[c].kind \in DrainingKinds
         => Drained(c)
    /\ InService(c) /\ final_state # Null /\ rec[c].ret = "success" /\ rec[c].kind \in DrainingKinds
         => Drained(c)

\* Nothing is left to happen once the clients are joined.
MainInv ==
    /\ mpc # "joining" => \A c \in Client : cpc[c] = "exited" /\ Drained(c)
    /\ stop = (mpc # "joining")
    /\ spc \in {"drain", "exited"} => stop
    /\ mpc \in {"returned", "raised"} => spc = "exited"
    /\ mpc # "raised"

\* An event captured a position of its stream; the forced advance passes all.
EventInv(c) ==
    /\ \A s \in 0 .. Ring - 1 : events[c][s] <= Len(stream[c])
    /\ ~Failures /\ (spc = "exited" \/ (spc = "drain" /\ c < scan))
         => ev_done[c] = ev_issued[c]

IInv ==
    /\ TypeOK
    /\ \A c \in Client : /\ QueueInv(c) /\ OutsideInv(c) /\ InsideInv(c) /\ HeadInv(c)
                         /\ LogInv(c) /\ DrainInv(c) /\ EventInv(c)
    /\ SchedInv
    /\ MainInv
=============================================================================
