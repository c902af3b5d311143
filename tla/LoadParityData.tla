---------------------------- MODULE LoadParityData ----------------------------
(***************************************************************************)
(* Decoder.loadParityData (par2/decoder.go 908-1152): the packets of every  *)
(* recovery volume are read and checked by a pool of workers, in batches    *)
(* that share one disk read; what they find is recorded under a lock, and   *)
(* what the delegate hears is recorded too and replayed afterwards.         *)
(*                                                                          *)
(* A volume is Unindexed (it fails to open, or its headers do not chain) or *)
(* a sequence of packets [kind, own, exp, sound, parses, agrees]: recovery, *)
(* main or other; of the decoder's set or not; its exponent; whether its    *)
(* hash matches, its body parses, and a main packet is the decoder's.       *)
(***************************************************************************)
EXTENDS Naturals, Sequences, FiniteSets, SequencesExt, Sorting

CONSTANTS
  Sets,            \* the volumes found, in match order: possible sequences of volumes
  Unindexed,
  Nowhere,
  BatchPackets,    \* packets a batch can hold (1 MB of them)
  MaxBad,          \* bound on the batches that cannot be read
  Workers

Packet == [kind : {"recovery", "main", "other"}, own : BOOLEAN, exp : Nat,
           sound : BOOLEAN, parses : BOOLEAN, agrees : BOOLEAN]
\* To be assumed where the module is instantiated.
ParityAssumption ==
  /\ \A sq \in Sets : sq \in Seq({Unindexed} \cup Seq(Packet))
  /\ BatchPackets \in Nat \ {0}
  /\ Nowhere \notin Nat

VARIABLES
  retain,          \* LoadParityData, or LoadParityPresence
  volumes, bad,    \* the volumes; unreadable batches <<volume, first packet>>
  pc, todo,        \* loadParityData, and the batches it has not sent
  work,            \* the workers
  failed,          \* volumes with an error
  present, locations, \* parityPresent as the set of exponents, parityLocations
  mains, events,   \* volMainPackets; the events recorded
  heard, outcome   \* what the delegate heard; the volume whose error is returned

vars == <<retain, volumes, bad, pc, todo, work, failed, present, locations, mains, events, heard, outcome>>
env == <<retain, volumes, bad>>
found == <<present, locations, mains, events>>

Vols == DOMAIN volumes
Indexed(sq) == {v \in DOMAIN sq : sq[v] # Unindexed}
Exponents == UNION {{volumes[v][i].exp : i \in DOMAIN volumes[v]} : v \in Indexed(volumes)}

-----------------------------------------------------------------------------
BatchEnd(packets, k) == Min({Len(packets), k * BatchPackets})
\* A volume is cut into batches of consecutive packets.
Batches(v, packets) ==
  [k \in 1..((Len(packets) + BatchPackets - 1) \div BatchPackets) |->
     [vol |-> v, pkt |-> (k - 1) * BatchPackets + 1, end |-> BatchEnd(packets, k)]]
AllBatches(sq) == FlattenSeq([v \in DOMAIN sq |-> IF sq[v] = Unindexed THEN <<>> ELSE Batches(v, sq[v])])

\* No volume is read yet.
Idle == [at |-> "idle"]
Exited == [at |-> "exited"]

Init ==
  /\ volumes \in Sets /\ retain \in BOOLEAN
  /\ bad \in {b \in SUBSET {<<t.vol, t.pkt>> : t \in ToSet(AllBatches(volumes))} :
                Cardinality(b) <= (IF retain THEN MaxBad ELSE 0)}
  /\ pc = "index" /\ todo = <<>>
  /\ work = [w \in Workers |-> Idle]
  /\ failed = {} /\ present = {} /\ locations = [v \in {} |-> Nowhere]
  /\ mains = [v \in Vols |-> Nowhere] /\ events = <<>> /\ heard = <<>>
  /\ outcome = "loading"

\* Every volume is opened and its headers indexed before the pool starts.
Index ==
  /\ pc = "index" /\ pc' = "send"
  /\ failed' = {v \in Vols : volumes[v] = Unindexed}
  /\ todo' = AllBatches(volumes)
  /\ UNCHANGED <<env, work, found, heard, outcome>>

Send(w) ==
  /\ pc = "send" /\ todo # <<>> /\ work[w].at = "idle"
  /\ work' = [work EXCEPT ![w] =
     [at |-> IF retain THEN "read" ELSE "handle",
      vol |-> Head(todo).vol, pkt |-> Head(todo).pkt, end |-> Head(todo).end]]
  /\ todo' = Tail(todo)
  /\ UNCHANGED <<env, pc, failed, found, heard, outcome>>

Close ==
  /\ pc = "send" /\ todo = <<>> /\ pc' = "wait"
  /\ UNCHANGED <<env, todo, work, failed, found, heard, outcome>>

Exit(w) ==
  /\ pc = "wait" /\ work[w].at = "idle"
  /\ work' = [work EXCEPT ![w] = Exited]
  /\ UNCHANGED <<env, pc, todo, failed, found, heard, outcome>>

\* The packets of a batch are read at once.
ReadBatch(w) ==
  LET unread == <<work[w].vol, work[w].pkt>> \in bad IN
  /\ work[w].at = "read"
  /\ work' = [work EXCEPT ![w] = IF unread THEN Idle ELSE [@ EXCEPT !.at = "handle"]]
  /\ failed' = IF unread THEN failed \cup {work[w].vol} ELSE failed
  /\ UNCHANGED <<env, pc, todo, found, heard, outcome>>

\* Presence takes every recovery packet on its header.
BrokenByHeader(p) ==
  \/ ~p.sound /\ (retain \/ p.kind # "recovery")
  \/ p.own /\ ~p.parses
\* A packet that fails to validate or to parse.  Presence takes the decoder's own
\* recovery packets on their headers and exponents.
Broken(p) ==
  \/ ~p.sound /\ (retain \/ ~p.own \/ p.kind # "recovery")
  \/ p.own /\ ~p.parses

Counts(p) == p.own /\ p.kind = "recovery"

\* The first worker to come wins.
WinsFirstCome(e, v) == e \notin DOMAIN locations
\* The first volume in match order wins, whichever worker comes first.
Wins(e, v) == e \notin DOMAIN locations \/ locations[e].vol > v

\* handle, for a packet of a volume without an error.
Handle(v, i, p) ==
  /\ events' = Append(events, <<v, i>>)
  /\ present' = IF Counts(p) THEN present \cup {p.exp} ELSE present
  /\ locations' = IF Counts(p) /\ retain /\ Wins(p.exp, v)
                  THEN [e \in DOMAIN locations \cup {p.exp} |->
                          IF e = p.exp THEN [vol |-> v, pkt |-> i] ELSE locations[e]]
                  ELSE locations
  /\ mains' = IF p.own /\ p.kind = "main" THEN [mains EXCEPT ![v] = i] ELSE mains

\* Packets of a volume that has an error are passed over.
Dropped(v) == v \in failed

\* A worker checks its next packet and records it under the lock.
HandlePacket(w) ==
  LET v == work[w].vol  i == work[w].pkt  p == volumes[v][i] IN
  /\ work[w].at = "handle"
  /\ IF Dropped(v) THEN UNCHANGED <<failed, found>>
     ELSE IF Broken(p) THEN failed' = failed \cup {v} /\ UNCHANGED found
     ELSE Handle(v, i, p) /\ UNCHANGED failed
  /\ work' = [work EXCEPT ![w] = IF i = @.end THEN Idle ELSE [@ EXCEPT !.pkt = i + 1]]
  /\ UNCHANGED <<env, pc, todo, heard, outcome>>

Before(a, b) == a[1] < b[1] \/ (a[1] = b[1] /\ a[2] < b[2])
\* The events are replayed as they were recorded.
ReplayUnsorted == events
\* The events are sorted by volume and packet before they are replayed.
Replay == Sorted(events, Before)

Mismatched(v) == mains[v] # Nowhere /\ ~volumes[v][mains[v]].agrees

\* The volumes that are reported with an error.
Refused == {v \in Vols : v \in failed \/ Mismatched(v)}

\* The pool is done: replay, then report the volumes in match order up to an error.
Finish ==
  /\ pc = "wait" /\ \A w \in Workers : work[w].at = "exited"
  /\ pc' = "done"
  /\ heard' = Replay
  /\ outcome' = IF Refused = {} THEN "loaded" ELSE "refused"
  /\ UNCHANGED <<env, todo, work, failed, found>>

Worker(w) == ReadBatch(w) \/ HandlePacket(w) \/ Exit(w)
Next == Index \/ Close \/ Finish \/ \E w \in Workers : Send(w) \/ Worker(w)

Spec == Init /\ [][Next]_vars

-----------------------------------------------------------------------------
\* What one goroutine reading volume after volume finds.
Packets == UNION {{v} \X DOMAIN volumes[v] : v \in Indexed(volumes)}
Blocks(e) == {q \in Packets : LET p == volumes[q[1]][q[2]] IN p.own /\ p.kind = "recovery" /\ p.exp = e}

\* Every block of the decoder's set was found, once per exponent, in the first volume
\* in match order that holds it.
FirstBlocks ==
  outcome = "loaded" =>
    /\ present = {e \in Exponents : Blocks(e) # {}}
    /\ DOMAIN locations = IF retain THEN present ELSE {}
    /\ \A e \in DOMAIN locations :
         /\ <<locations[e].vol, locations[e].pkt>> \in Blocks(e)
         /\ locations[e].vol = Min({q[1] : q \in Blocks(e)})

\* The delegate heard every packet, in (volume, packet) order.
HeardInOrder ==
  outcome = "loaded" =>
    ToSet(heard) = Packets /\ \A n, k \in DOMAIN heard : n < k => Before(heard[n], heard[k])

\* Whatever the workers' schedule, a load that succeeds comes to what one goroutine would
\* come to ("regardless of which worker got there first", decoder.go:998-1000), and
\* is heard as it would be ("so the observable sequence is the sequential one", 920-922).
LoadedIsSequential == FirstBlocks /\ HeardInOrder

\* A packet that must not be taken: verification alone may leave the body of a
\* block of the set unread.
Faulty(p) == CASE ~p.own -> ~p.sound
             [] p.own /\ p.kind = "recovery" -> ~p.parses \/ (retain /\ ~p.sound)
             [] OTHER -> ~p.sound \/ ~p.parses \/ (p.kind = "main" /\ ~p.agrees)

OwnMains(v) == {q \in Packets : LET p == volumes[v][q[2]] IN q[1] = v /\ p.own /\ p.kind = "main"}
Agrees(q) == volumes[q[1]][q[2]].agrees
\* The main packets of a volume are of one version of the set.  Otherwise the one that
\* is handled last decides, whichever that is.
Coherent == \A v \in Vols : \A q, r \in OwnMains(v) : Agrees(q) = Agrees(r)

\* The load fails exactly for the volumes that cannot be read, hold a packet that
\* does not validate, or belong to another version of the set, whatever the
\* schedule: a block no check has passed is never used by a repair.
FaultsAreRefused ==
  outcome \in {"loaded", "refused"} /\ Coherent =>
    (outcome = "refused" <=> \E v \in Vols :
       volumes[v] = Unindexed \/ (\E b \in bad : b[1] = v)
       \/ \E q \in Packets : q[1] = v /\ Faulty(volumes[v][q[2]]))
===============================================================================
