--------------------------- MODULE DeliveryProofs ---------------------------
(***************************************************************************)
(* What module Delivery promises, proved for every log, every set of sinks *)
(* and all configurations: which records are through is recorded only when *)
(* their events are in the sinks, in log order, and a retry of the same    *)
(* windows writes the same files.                                          *)
(***************************************************************************)
EXTENDS Delivery, TLAPS, SequenceTheorems, WellFoundedInduction

(* The events some processors emit for a sink.                             *)
Emitted(s) == UNION {ToSet(Configs[c].emits[l][s]) : c \in Names, l \in Lsns}

InSink == {"chunk", "event", "stat", "write", "rename", "put"}
InFiles == {"stat", "write", "rename", "put"}
Pcs == {"idle", "collect", "plan", "store"} \cup InSink

(* Where the window begins: after the last record handled before it.       *)
Base == IF pending # 0 THEN pending ELSE checkpoint

---------------------------------------------------------------------------
(* The inductive invariant, in parts.                                      *)

Numbers ==
  /\ available \in 0..LastLsn /\ checkpoint \in 0..available /\ config \in Names
  /\ pc \in Pcs
  /\ upto \in 0..available /\ pending \in 0..upto
  /\ pending # 0 => checkpoint <= pending
  /\ pc # "idle" => checkpoint <= upto
  /\ appends \in Nat /\ failures \in Nat /\ crashes \in Nat /\ changes \in Nat

(* The window is the records after the last one handled.                   *)
Windows ==
  /\ window \in Seq([lsn : Lsns, by : Names])
  /\ \A k \in 1..Len(window) : window[k].lsn = Base + k
  /\ Base + Len(window) <= (IF pc = "idle" THEN Base ELSE upto)
  /\ pc \in {"plan"} \cup InSink => window # <<>>
  /\ pc \in {"idle", "store"} => window = <<>>

Loads ==
  /\ DOMAIN loads = Sinks
  /\ \A s \in Sinks : loads[s] \in Seq(Emitted(s))
  /\ window = <<>> => \A s \in Sinks : loads[s] = <<>>
  /\ pc \in InSink => Todo # {}

Outside ==
  /\ DOMAIN topic = Sinks /\ DOMAIN files = Sinks /\ DOMAIN temps = Sinks
  /\ \A s \in Sinks : topic[s] \in Seq(Emitted(s))
  /\ \A s \in Sinks : Kind[s] # "kafka" => topic[s] = <<>>
  /\ \A s \in Sinks : \A f \in files[s] : f.events \in Seq(Emitted(s))
  /\ \A s \in Sinks : Kind[s] # "parquet" => files[s] = {}
  /\ settled \in [Lsns -> Names \cup {Unsent, Quarantined}]

Shaped == Numbers /\ Windows /\ Loads /\ Outside

(* The events of a sink are in log order and come from the window.         *)
LoadsInOrder ==
  \A s \in Sinks :
    /\ \A i \in 1..Len(loads[s]) : loads[s][i].lsn \in (Base + 1)..(Base + Len(window))
    /\ \A i, j \in 1..Len(loads[s]) : i < j => loads[s][i].lsn <= loads[s][j].lsn

(* A sink whose files tell by their names what is in them: one event of a  *)
(* record at most, the same whoever emits it.                              *)
Lone(s) == \A c \in Names, l \in Lsns : Len(Configs[c].emits[l][s]) <= 1
Agreed(s) == \A c, d \in Names, l \in Lsns : Configs[c].emits[l][s] = Configs[d].emits[l][s]
Steady(s) == changes = 0 \/ Agreed(s)
OneVoice ==
  changes = 0 =>
    /\ \A k \in 1..Len(window) : window[k].by = config /\ Known(window[k].lsn)
    /\ \A l \in Lsns : settled[l] \in {Unsent, Quarantined, config}
    /\ \A l \in Lsns : settled[l] = Quarantined => ~Known(l)

LoadsAreNow ==
  \A s \in Sinks : Steady(s) =>
    \A i \in 1..Len(loads[s]) : loads[s][i] \in ToSet(Now.emits[loads[s][i].lsn][s])

LoadsAreLone ==
  \A s \in Sinks : Lone(s) =>
    /\ \A i, j \in 1..Len(loads[s]) : i < j => loads[s][i].lsn < loads[s][j].lsn
    /\ \A k \in 1..Len(window) :
         loads[s] # <<>> /\ loads[s][1].lsn <= window[k].lsn =>
           ToSet(Configs[window[k].by].emits[window[k].lsn][s]) \subseteq ToSet(loads[s])

(* Where the sinks stand.                                                  *)
AtEvent ==
  pc = "event" =>
    /\ Kind[Sink] = "kafka"
    /\ left \in Seq(Emitted(Sink)) /\ left # <<>>
    /\ ToSet(left) \subseteq ToSet(Chunk.events)
    /\ ToSet(Chunk.events) \subseteq ToSet(topic[Sink]) \cup ToSet(left)
    /\ \A i, j \in 1..Len(left) : i < j => left[i].lsn <= left[j].lsn
AtFile ==
  /\ pc \in InFiles => Kind[Sink] = "parquet"
  /\ pc = "rename" => \A f \in temps[Sink] : f.name = FileName(Chunk) => f = File(Chunk)

Positions == AtEvent /\ AtFile

(* What a record or a window has reached.                                  *)
Told(s) == Kind[s] = "kafka" \/ (Kind[s] = "parquet" /\ Lone(s) /\ Steady(s))
Through(l) ==
  /\ settled[l] # Unsent
  /\ \A s \in Sinks : Told(s) => ToSet(Events(settled[l], l, s)) \subseteq Held(s)
BaseThrough == \A l \in 1..Base : Through(l)
WindowOnItsWay ==
  \A k \in 1..Len(window), s \in Sinks :
    Told(s) => ToSet(Configs[window[k].by].emits[window[k].lsn][s]) \subseteq Held(s) \cup ToSet(loads[s])

FilesTell ==
  \A s \in Sinks : Lone(s) /\ Steady(s) =>
    \A f \in files[s] :
      /\ \A i \in 1..Len(f.events) : 
            /\ f.events[i].lsn \in f.name[1]..f.name[2]
            /\ f.events[i] \in ToSet(Now.emits[f.events[i].lsn][s])
      /\ \A l \in f.name[1]..f.name[2] : l \in Lsns /\ ToSet(Now.emits[l][s]) \subseteq ToSet(f.events)
      /\ \A i, j \in 1..Len(f.events) : i < j => f.events[i].lsn < f.events[j].lsn

TopicsInOrder ==
  changes = 0 =>
    \A s \in Sinks :
      /\ \A i, j \in 1..Len(topic[s]) : i < j => topic[s][i].lsn <= topic[s][j].lsn
      /\ \A i \in 1..Len(topic[s]), l \in Lsns :
            l < topic[s][i].lsn /\ Known(l) => ToSet(Now.emits[l][s]) \subseteq ToSet(topic[s])

---------------------------------------------------------------------------
(* Facts about numbers and sequences.                                      *)

(* A set of natural numbers has a least one.                               *)
LEMMA LeastOf ==
  ASSUME NEW T, T \subseteq Nat, T # {}
  PROVE  \E x \in T : \A y \in T : x <= y
<1>1. PICK x \in T : \A y \in T : <<y, x>> \notin OpToRel(<, Nat)
  BY NatLessThanWellFounded, WFMin
<1>2. \A y \in T : ~(y < x)  BY <1>1 DEF OpToRel
<1> QED BY <1>2

(* What is in a sequence.                                                  *)
LEMMA InSequence ==
  ASSUME NEW T, NEW s \in Seq(T)
  PROVE  /\ Len(s) \in Nat /\ DOMAIN s = 1..Len(s)
         /\ \A e : e \in ToSet(s) <=> \E i \in 1..Len(s) : e = s[i]
         /\ ToSet(s) \subseteq T
         /\ s # <<>> <=> Len(s) > 0
         /\ s # <<>> <=> ToSet(s) # {}
<1>1. Len(s) \in Nat /\ DOMAIN s = 1..Len(s) /\ \A i \in 1..Len(s) : s[i] \in T
  BY LenProperties
<1>2. s # <<>> <=> Len(s) > 0  BY <1>1, EmptySeq
<1>3. ToSet(s) = {s[i] : i \in 1..Len(s)}  BY <1>1 DEF ToSet
<1>4. ToSet(s) \subseteq T  BY <1>1, <1>3
<1>5. Len(s) > 0 => s[1] \in ToSet(s)  BY <1>1, <1>3
<1>6. ToSet(s) # {} => Len(s) > 0
  <2>1. SUFFICES ASSUME NEW e \in ToSet(s) PROVE Len(s) > 0  OBVIOUS
  <2>2. PICK i \in 1..Len(s) : e = s[i]  BY <1>3
  <2> QED BY <1>1
<1>7. \A e : e \in ToSet(s) <=> \E i \in 1..Len(s) : e = s[i]  BY <1>3
<1> QED BY <1>1, <1>2, <1>4, <1>5, <1>6, <1>7

(* What is in two sequences one after the other.                           *)
LEMMA InBoth ==
  ASSUME NEW T, NEW s \in Seq(T), NEW t \in Seq(T)
  PROVE  /\ s \o t \in Seq(T)
         /\ ToSet(s \o t) = ToSet(s) \cup ToSet(t)
<1>1. /\ s \o t \in Seq(T) /\ Len(s \o t) = Len(s) + Len(t)
      /\ \A i \in 1..(Len(s) + Len(t)) :
           (s \o t)[i] = IF i <= Len(s) THEN s[i] ELSE t[i - Len(s)]
  BY ConcatProperties
<1>2. /\ Len(s) \in Nat /\ Len(t) \in Nat
      /\ \A e : e \in ToSet(s) <=> \E i \in 1..Len(s) : e = s[i]
      /\ \A e : e \in ToSet(t) <=> \E i \in 1..Len(t) : e = t[i]
      /\ \A e : e \in ToSet(s \o t) <=> \E i \in 1..Len(s \o t) : e = (s \o t)[i]
  BY <1>1, InSequence
<1>3. ASSUME NEW e \in ToSet(s \o t) PROVE e \in ToSet(s) \cup ToSet(t)
  <2>1. PICK i \in 1..(Len(s) + Len(t)) : e = (s \o t)[i]  BY <1>1, <1>2
  <2>2. CASE i <= Len(s)  BY <1>1, <1>2, <2>1, <2>2
  <2>3. CASE ~(i <= Len(s))
    <3>1. i - Len(s) \in 1..Len(t)  BY <1>2, <2>3
    <3> QED BY <1>1, <1>2, <2>1, <2>3, <3>1
  <2> QED BY <2>2, <2>3
<1>4. ASSUME NEW e \in ToSet(s) PROVE e \in ToSet(s \o t)
  <2>1. PICK i \in 1..Len(s) : e = s[i]  BY <1>2
  <2>2. i \in 1..(Len(s) + Len(t)) /\ (s \o t)[i] = s[i]  BY <1>1, <1>2
  <2> QED BY <1>1, <1>2, <2>1, <2>2
<1>5. ASSUME NEW e \in ToSet(t) PROVE e \in ToSet(s \o t)
  <2>1. PICK i \in 1..Len(t) : e = t[i]  BY <1>2
  <2>2. Len(s) + i \in 1..(Len(s) + Len(t)) /\ (s \o t)[Len(s) + i] = t[i]  BY <1>1, <1>2
  <2> QED BY <1>1, <1>2, <2>1, <2>2
<1> QED BY <1>1, <1>3, <1>4, <1>5

(* A sequence cut in two after n.                                          *)
LEMMA CutAfter ==
  ASSUME NEW T, NEW s \in Seq(T), NEW n \in 1..Len(s)
  PROVE  /\ SubSeq(s, 1, n) \in Seq(T) /\ Len(SubSeq(s, 1, n)) = n
         /\ \A i \in 1..n : SubSeq(s, 1, n)[i] = s[i]
         /\ SubSeq(s, n + 1, Len(s)) \in Seq(T)
         /\ Len(SubSeq(s, n + 1, Len(s))) = Len(s) - n
         /\ \A i \in 1..(Len(s) - n) : SubSeq(s, n + 1, Len(s))[i] = s[n + i]
         /\ \A e : e \in ToSet(SubSeq(s, 1, n)) <=> \E i \in 1..n : e = s[i]
         /\ \A e : e \in ToSet(SubSeq(s, n + 1, Len(s))) <=> \E i \in (n + 1)..Len(s) : e = s[i]
         /\ ToSet(s) = ToSet(SubSeq(s, 1, n)) \cup ToSet(SubSeq(s, n + 1, Len(s)))
<1>1. Len(s) \in Nat /\ \A i \in 1..Len(s) : s[i] \in T  BY LenProperties
<1>2. /\ SubSeq(s, 1, n) \in Seq(T) /\ Len(SubSeq(s, 1, n)) = n
      /\ \A i \in 1..n : SubSeq(s, 1, n)[i] = s[i]
  BY <1>1, SubSeqProperties
<1>3. /\ SubSeq(s, n + 1, Len(s)) \in Seq(T)
      /\ Len(SubSeq(s, n + 1, Len(s))) = Len(s) - n
      /\ \A i \in 1..(Len(s) - n) : SubSeq(s, n + 1, Len(s))[i] = s[n + i]
  <2>1. \A i \in (n + 1)..Len(s) : s[i] \in T  BY <1>1
  <2>2. n + 1 \in Int /\ Len(s) \in Int /\ Len(s) - (n + 1) + 1 = Len(s) - n  BY <1>1
  <2>3. /\ SubSeq(s, n + 1, Len(s)) \in Seq(T)
        /\ Len(SubSeq(s, n + 1, Len(s))) = IF n + 1 <= Len(s) THEN Len(s) - (n + 1) + 1 ELSE 0
        /\ \A i \in 1..(Len(s) - (n + 1) + 1) : SubSeq(s, n + 1, Len(s))[i] = s[n + 1 + i - 1]
    BY <2>1, <2>2, SubSeqProperties
  <2>4. \A i \in 1..(Len(s) - n) : n + 1 + i - 1 = n + i  BY <1>1
  <2>5. Len(SubSeq(s, n + 1, Len(s))) = Len(s) - n  BY <2>3, <1>1
  <2> QED BY <2>2, <2>3, <2>4, <2>5
<1>4. \A e : e \in ToSet(SubSeq(s, 1, n)) <=> \E i \in 1..n : e = s[i]
  <2> DEFINE q == SubSeq(s, 1, n)
  <2>1. q \in Seq(T) /\ Len(q) = n /\ \A i \in 1..n : q[i] = s[i]  BY <1>2
  <2> HIDE DEF q
  <2>2. \A e : e \in ToSet(q) <=> \E i \in 1..Len(q) : e = q[i]  BY <2>1, InSequence
  <2>3. \A e : e \in ToSet(q) <=> \E i \in 1..n : e = s[i]  BY <2>1, <2>2
  <2> QED BY <2>3 DEF q
<1>5. \A e : e \in ToSet(SubSeq(s, n + 1, Len(s))) <=> \E i \in (n + 1)..Len(s) : e = s[i]
  <2> DEFINE r == SubSeq(s, n + 1, Len(s))
  <2>1. /\ r \in Seq(T) /\ Len(r) = Len(s) - n
        /\ \A i \in 1..(Len(s) - n) : r[i] = s[n + i]
    BY <1>3
  <2> HIDE DEF r
  <2>2. \A e : e \in ToSet(r) <=> \E i \in 1..Len(r) : e = r[i]
    <3>1. r \in Seq(T)  BY <2>1
    <3> QED BY <3>1, InSequence
  <2>3. \A i \in 1..Len(r) : r[i] = s[n + i] /\ n + i \in (n + 1)..Len(s)  BY <1>1, <2>1
  <2>4. \A j \in (n + 1)..Len(s) : j - n \in 1..Len(r) /\ r[j - n] = s[j]
    <3>1. \A j \in (n + 1)..Len(s) : j - n \in 1..Len(r) /\ n + (j - n) = j  BY <1>1, <2>1
    <3> QED BY <3>1, <2>1
  <2>5. ASSUME NEW e, e \in ToSet(r) PROVE \E i \in (n + 1)..Len(s) : e = s[i]
    <3>1. PICK i \in 1..Len(r) : e = r[i]  BY <2>2, <2>5
    <3> QED BY <2>3, <3>1
  <2>6. ASSUME NEW i \in (n + 1)..Len(s) PROVE s[i] \in ToSet(r)  BY <2>2, <2>4
  <2> QED BY <2>5, <2>6 DEF r
<1>6. \A e : e \in ToSet(s) <=> \E i \in 1..Len(s) : e = s[i]  BY InSequence
<1>7. 1..Len(s) = (1..n) \cup ((n + 1)..Len(s))  BY <1>1
<1> QED BY <1>1, <1>2, <1>3, <1>4, <1>5, <1>6, <1>7

(* The head and the tail of a sequence.                                    *)
LEMMA HeadAndTail ==
  ASSUME NEW T, NEW s \in Seq(T), s # <<>>
  PROVE  /\ Head(s) = s[1] /\ Head(s) \in T
         /\ Tail(s) \in Seq(T) /\ Len(Tail(s)) = Len(s) - 1
         /\ \A i \in 1..Len(Tail(s)) : Tail(s)[i] = s[i + 1]
         /\ ToSet(s) = {Head(s)} \cup ToSet(Tail(s))
<1>1. Len(s) \in Nat /\ Len(s) > 0 /\ \A e : e \in ToSet(s) <=> \E i \in 1..Len(s) : e = s[i]
  BY InSequence
<1>2. /\ Tail(s) \in Seq(T) /\ Len(Tail(s)) = Len(s) - 1
      /\ \A i \in 1..Len(Tail(s)) : Tail(s)[i] = s[i + 1]
      /\ Head(s) \in T
  BY HeadTailProperties
<1>3. Head(s) = s[1]  OBVIOUS
<1>4. \A e : e \in ToSet(Tail(s)) <=> \E i \in 1..Len(Tail(s)) : e = Tail(s)[i]
  BY <1>2, InSequence
<1>5. \A i \in 1..Len(Tail(s)) : i + 1 \in 1..Len(s)  BY <1>1, <1>2
<1>6. \A i \in 2..Len(s) : i - 1 \in 1..Len(Tail(s)) /\ Tail(s)[i - 1] = s[i]
  <2>1. \A i \in 2..Len(s) : i - 1 \in 1..Len(Tail(s)) /\ (i - 1) + 1 = i  BY <1>1, <1>2
  <2> QED BY <2>1, <1>2
<1>7. 1..Len(s) = {1} \cup (2..Len(s))  BY <1>1
<1>8. ASSUME NEW e \in ToSet(s) PROVE e \in {Head(s)} \cup ToSet(Tail(s))
  <2>1. PICK i \in 1..Len(s) : e = s[i]  BY <1>1
  <2>2. CASE i = 1  BY <2>1, <2>2, <1>3
  <2>3. CASE i \in 2..Len(s)  BY <2>1, <2>3, <1>4, <1>6
  <2> QED BY <2>2, <2>3, <1>7
<1>9. \A e \in ToSet(Tail(s)) : e \in ToSet(s)  BY <1>1, <1>2, <1>4, <1>5
<1>10. Head(s) \in ToSet(s)  BY <1>1, <1>3
<1> QED BY <1>2, <1>3, <1>8, <1>9, <1>10

---------------------------------------------------------------------------
(* Sinks, chunks and what is emitted.                                      *)

(* What an emitted event is.                                               *)
LEMMA EmittedEvents ==
  ASSUME NEW s \in Sinks
  PROVE  /\ \A c \in Names, l \in Lsns : Configs[c].emits[l][s] \in Seq(Emitted(s))
         /\ \A e \in Emitted(s) :
              /\ IsEvent(e) /\ e.lsn \in Lsns /\ e.lsn \in Nat
              /\ \E c \in Names : e \in ToSet(Configs[c].emits[e.lsn][s])
<1>1. \A c \in Names, l \in Lsns :
        /\ Configs[c].emits[l][s] \in Seq(ToSet(Configs[c].emits[l][s]))
        /\ \A e \in ToSet(Configs[c].emits[l][s]) : IsEvent(e) /\ e.lsn = l
  BY DeliveryAssumption DEF DeliveryAssumption, IsConfig
<1>2. ASSUME NEW c \in Names, NEW l \in Lsns
      PROVE  Configs[c].emits[l][s] \in Seq(Emitted(s))
  <2>1. ToSet(Configs[c].emits[l][s]) \subseteq Emitted(s)  BY DEF Emitted
  <2> QED BY <1>1, <2>1, SeqMonotonic
<1>3. ASSUME NEW e \in Emitted(s)
      PROVE  /\ IsEvent(e) /\ e.lsn \in Lsns /\ e.lsn \in Nat
             /\ \E c \in Names : e \in ToSet(Configs[c].emits[e.lsn][s])
  <2>1. PICK c \in Names, l \in Lsns : e \in ToSet(Configs[c].emits[l][s])  BY DEF Emitted
  <2>2. IsEvent(e) /\ e.lsn = l  BY <1>1, <2>1
  <2> QED BY <2>1, <2>2 DEF Lsns
<1> QED BY <1>2, <1>3

(* The sink that is served is the first that has something left.           *)
LEMMA SinkIsFirst ==
  ASSUME Todo # {}
  PROVE  Sink \in Todo /\ Sink \in Sinks /\ loads[Sink] # <<>>
<1>1. Todo \subseteq Nat  BY DeliveryAssumption DEF DeliveryAssumption, Todo
<1>2. PICK s \in Todo : \A t \in Todo : s <= t  BY <1>1, LeastOf
<1>3. Sink \in Todo  BY <1>2 DEF Sink
<1> QED BY <1>3 DEF Todo

(* A chunk takes at least one event and no more than there are.            *)
LEMMA ChunkTakesSome ==
  ASSUME NEW T, NEW events \in Seq(T), events # <<>>, NEW limits
  PROVE  ChunkLength(events, limits) \in 1..Len(events)
<1> DEFINE Ends == {n \in 1..Len(events) : n < Len(events) => ~FitsIn(n + 1, events, limits)}
<1>1. Len(events) \in Nat /\ Len(events) > 0  BY InSequence
<1>2. Len(events) \in Ends /\ Ends \subseteq Nat  BY <1>1
<1> HIDE DEF Ends
<1>3. PICK n \in Ends : \A m \in Ends : n <= m  BY <1>2, LeastOf
<1>4. n \in 1..Len(events) /\ (n < Len(events) => ~FitsIn(n + 1, events, limits))
  BY <1>3 DEF Ends
<1>5. ASSUME NEW m \in 2..n PROVE FitsIn(m, events, limits)
  <2>1. m - 1 \in 1..Len(events) /\ ~(n <= m - 1) /\ m - 1 < Len(events) /\ (m - 1) + 1 = m
    BY <1>1, <1>4
  <2>2. m - 1 \notin Ends  BY <1>3, <2>1
  <2> QED BY <2>1, <2>2 DEF Ends
<1> QED BY <1>4, <1>5 DEF ChunkLength

(* The chunk is a beginning of what is left for the sink.                  *)
LEMMA ChunkIsBeginning ==
  ASSUME Loads, Todo # {}
  PROVE  \E n \in 1..Len(loads[Sink]) :
           /\ Sink \in Sinks /\ loads[Sink] \in Seq(Emitted(Sink)) /\ loads[Sink] # <<>>
           /\ Chunk = ChunkOf(loads[Sink], n)
           /\ Chunk.first = loads[Sink][1].lsn /\ Chunk.last = loads[Sink][n].lsn
           /\ Chunk.events = SubSeq(loads[Sink], 1, n)
           /\ Chunk.events \in Seq(Emitted(Sink)) /\ Len(Chunk.events) = n
           /\ \A i \in 1..n : Chunk.events[i] = loads[Sink][i]
           /\ \A e : e \in ToSet(Chunk.events) <=> \E i \in 1..n : e = loads[Sink][i]
           /\ SubSeq(loads[Sink], n + 1, Len(loads[Sink])) \in Seq(Emitted(Sink))
<1> DEFINE events == loads[Sink]
           n == ChunkLength(events, policy)
<1>1. Sink \in Sinks /\ events # <<>> /\ events \in Seq(Emitted(Sink))
  BY SinkIsFirst DEF Loads
<1> HIDE DEF events
<1>2. n \in 1..Len(events)  BY <1>1, ChunkTakesSome
<1>3. Chunk = ChunkOf(events, n)  BY DEF Chunk, events
<1> HIDE DEF n
<1>4. /\ SubSeq(events, 1, n) \in Seq(Emitted(Sink)) /\ Len(SubSeq(events, 1, n)) = n
      /\ \A i \in 1..n : SubSeq(events, 1, n)[i] = events[i]
      /\ \A e : e \in ToSet(SubSeq(events, 1, n)) <=> \E i \in 1..n : e = events[i]
      /\ SubSeq(events, n + 1, Len(events)) \in Seq(Emitted(Sink))
  BY <1>1, <1>2, CutAfter
<1>5. /\ Chunk.first = events[1].lsn /\ Chunk.last = events[n].lsn
      /\ Chunk.events = SubSeq(events, 1, n)
  BY <1>3 DEF ChunkOf
<1> QED BY <1>1, <1>2, <1>3, <1>4, <1>5 DEF events

Inv ==
  /\ Shaped /\ LoadsInOrder /\ OneVoice /\ LoadsAreNow /\ LoadsAreLone /\ Positions
  /\ BaseThrough /\ WindowOnItsWay /\ FilesTell /\ TopicsInOrder

---------------------------------------------------------------------------
(* The kinds of steps.                                                     *)

FilesGrow ==
  files' = files \/ (pc \in InFiles /\ files' = [files EXCEPT ![Sink] = @ \cup {File(Chunk)}])
TopicGrows == topic' = topic \/ (pc = "event" /\ Publish(Sink, Head(left)))

(* The window stays as it is, while the pass may go on,                    *)
PcMoves ==
  \/ UNCHANGED <<pc, upto>>
  \/ pc = "idle" /\ pc' = "collect" /\ upto' = available
  \/ pc = "collect" /\ window # <<>> /\ pc' = "plan" /\ UNCHANGED upto
  \/ pc = "plan" /\ Todo # {} /\ pc' = "chunk" /\ UNCHANGED upto
  \/ pc \in InSink /\ pc' \in InSink /\ UNCHANGED upto
  \/ pc = "collect" /\ window = <<>> /\ pc' = "store" /\ UNCHANGED upto
  \/ pc = "store" /\ pc' = "collect" /\ UNCHANGED upto
WindowStays == UNCHANGED <<window, loads, settled, config, changes>> /\ Base' = Base /\ PcMoves
(* a chunk of it is in its sink,                                           *)
Reached ==
  /\ Kind[Sink] = "kafka" => ToSet(Chunk.events) \subseteq ToSet(topic'[Sink])
  /\ Kind[Sink] = "parquet" => \E f \in files'[Sink] : f.name = FileName(Chunk)
ChunkSent == pc \in InSink /\ ChunkDone /\ Reached /\ UNCHANGED <<settled, config, changes>> /\ Base' = Base
(* or the pass is over.                                                    *)
PassEnds == PassOver /\ UNCHANGED <<settled, config, changes>> /\ checkpoint' \in {checkpoint, Base}

Kinds7 ==
  \/ WindowStays \/ Collect \/ Quarantine \/ ChunkSent \/ PassEnds \/ WindowSent \/ Refresh

(* What is handled is the end of the window.                               *)
LEMMA HandledIsEnd ==
  ASSUME Shaped
  PROVE  /\ Handled = Base + Len(window) /\ Handled \in Nat /\ Base \in Nat
         /\ Len(window) \in Nat /\ Base <= Handled
         /\ checkpoint \in Nat /\ checkpoint <= Base /\ Base <= available
         /\ window # <<>> => Last(window).lsn = Base + Len(window)
         /\ window = <<>> <=> Len(window) = 0
<1>1. /\ Len(window) \in Nat /\ (window # <<>> <=> Len(window) > 0)
  BY InSequence DEF Shaped, Windows
<1>2. /\ Base \in Nat /\ checkpoint \in Nat /\ checkpoint <= Base /\ Base <= available
  BY DeliveryAssumption DEF DeliveryAssumption, Shaped, Numbers, Base
<1>3. window # <<>> => Last(window).lsn = Base + Len(window)
  BY <1>1 DEF Shaped, Windows, Last
<1>4. Handled = Base + Len(window)
  <2>1. CASE window # <<>>  BY <2>1, <1>3 DEF Handled
  <2>2. CASE window = <<>>  BY <2>2, <1>1, <1>2 DEF Handled, Base
  <2> QED BY <2>1, <2>2
<1> QED BY <1>1, <1>2, <1>3, <1>4

(* A message that is published is in its topic, and nothing leaves one.    *)
LEMMA PublishAdds ==
  ASSUME Outside, NEW s \in Sinks, NEW e \in Emitted(s), Publish(s, e)
  PROVE  /\ DOMAIN topic' = Sinks
         /\ \A t \in Sinks : t # s => topic'[t] = topic[t]
         /\ topic'[s] \in Seq(Emitted(s))
         /\ ToSet(topic'[s]) = ToSet(topic[s]) \cup {e}
         /\ \/ topic'[s] = topic[s]
            \/ e \notin ToSet(topic[s]) /\ topic'[s] = Append(topic[s], e)
<1>1. topic[s] \in Seq(Emitted(s)) /\ DOMAIN topic = Sinks  BY DEF Outside
<1>2. topic' = [topic EXCEPT ![s] = IF e \in ToSet(@) THEN @ ELSE Append(@, e)]  BY DEF Publish
<1>3. /\ DOMAIN topic' = Sinks
      /\ \A t \in Sinks : t # s => topic'[t] = topic[t]
      /\ topic'[s] = IF e \in ToSet(topic[s]) THEN topic[s] ELSE Append(topic[s], e)
  BY <1>1, <1>2
<1>4. CASE e \in ToSet(topic[s])  BY <1>1, <1>3, <1>4
<1>5. CASE e \notin ToSet(topic[s])
  <2>1. topic'[s] = Append(topic[s], e)  BY <1>3, <1>5
  <2>2. /\ Append(topic[s], e) \in Seq(Emitted(s))
        /\ Append(topic[s], e) = topic[s] \o <<e>> /\ <<e>> \in Seq(Emitted(s))
    BY <1>1, AppendProperties, AppendIsConcat
  <2>3. ToSet(topic[s] \o <<e>>) = ToSet(topic[s]) \cup ToSet(<<e>>)  BY <1>1, <2>2, InBoth
  <2>4. ToSet(<<e>>) = {e}  BY DEF ToSet
  <2> QED BY <1>3, <1>5, <2>1, <2>2, <2>3, <2>4
<1> QED BY <1>4, <1>5

(* The last message of a chunk is the last that its topic lacked.          *)
LEMMA LastMessage ==
  ASSUME Inv, pc = "event", SendEvent
  PROVE  /\ Head(left) \in Emitted(Sink) /\ Publish(Sink, Head(left)) /\ Sink \in Sinks
         /\ Tail(left) = <<>> => ToSet(Chunk.events) \subseteq ToSet(topic'[Sink])
<1>1. Sink \in Sinks  BY SinkIsFirst DEF Inv, Shaped, Loads, InSink
<1>2. /\ left \in Seq(Emitted(Sink)) /\ left # <<>>
      /\ ToSet(Chunk.events) \subseteq ToSet(topic[Sink]) \cup ToSet(left)
  BY DEF Inv, Positions, AtEvent
<1>3. Head(left) \in Emitted(Sink) /\ ToSet(left) = {Head(left)} \cup ToSet(Tail(left))
  BY <1>2, HeadAndTail
<1>4. Publish(Sink, Head(left))  BY DEF SendEvent
<1>5. ToSet(topic'[Sink]) = ToSet(topic[Sink]) \cup {Head(left)}
  BY <1>1, <1>3, <1>4, PublishAdds DEF Inv, Shaped
<1>6. ToSet(<<>>) = {}  BY DEF ToSet
<1> QED BY <1>1, <1>2, <1>3, <1>4, <1>5, <1>6

(* A chunk is taken by a sink that is through at once, or one that starts. *)
LEMMA ChunkIsTaken ==
  ASSUME Inv, TakeChunk
  PROVE  \/ Kind[Sink] \in {"blackhole", "stdout"} /\ ChunkDone
         \/ /\ Kind[Sink] = "kafka" /\ pc' = "event" /\ left' = Chunk.events
            /\ UNCHANGED <<upto, window, loads, policy, pending>>
         \/ /\ Kind[Sink] = "parquet" /\ pc' \in {"put", "stat"}
            /\ UNCHANGED <<upto, window, loads, policy, left, pending>>
<1>1. pc = "chunk" /\ Todo # {}  BY DEF TakeChunk, Inv, Shaped, Loads, InSink
<1>2. Kind[Sink] \in Kinds  BY <1>1, SinkIsFirst, DeliveryAssumption DEF DeliveryAssumption
<1>3. CASE Kind[Sink] \in {"blackhole", "stdout"}  BY <1>3 DEF TakeChunk
<1>4. CASE Kind[Sink] = "kafka"  BY <1>4 DEF TakeChunk
<1>5. CASE Kind[Sink] = "parquet"  BY <1>5 DEF TakeChunk
<1> QED BY <1>2, <1>3, <1>4, <1>5 DEF Kinds

(* Every step is of one of the kinds.                                      *)
LEMMA StepKinds ==
  ASSUME Inv, [Next]_vars
  PROVE  Kinds7 /\ FilesGrow /\ TopicGrows
<1> USE DEF Kinds7, FilesGrow, TopicGrows, PcMoves, InSink
<1>0. pc \in InSink => Sink \in Sinks /\ Kind[Sink] \in Kinds /\ DOMAIN files = Sinks
  BY SinkIsFirst, DeliveryAssumption DEF DeliveryAssumption, Inv, Shaped, Loads, Outside
<1>00. pc \in InFiles => Kind[Sink] = "parquet"  BY DEF Inv, Positions, AtFile
<1>1. CASE OpenPass
  BY <1>1 DEF OpenPass, WindowStays, Base, outside, bounds
<1>2. CASE Collect  BY <1>2 DEF Collect, outside
<1>3. CASE Quarantine  BY <1>3 DEF Quarantine, outside
<1>4. CASE SendWindow
  BY <1>4 DEF SendWindow, WindowStays, Base, outside, bounds
<1>5. CASE PlanSink
  BY <1>5 DEF PlanSink, WindowStays, Base, outside, bounds
<1>6. CASE RejectChunk
  BY <1>6 DEF RejectChunk, FailPass, PassEnds, outside, bounds
<1>7. CASE TakeChunk
  <2>0. /\ pc \in InSink /\ pc = "chunk"
        /\ UNCHANGED <<checkpoint, settled, config, changes, files, topic>>
    BY <1>7 DEF TakeChunk, InSink, outside, bounds
  <2>1. CASE Kind[Sink] \in {"blackhole", "stdout"} /\ ChunkDone
    <3>1. Reached  BY <2>1 DEF Reached
    <3> QED BY <2>0, <2>1, <3>1 DEF ChunkSent, ChunkDone, Base
  <2>2. CASE UNCHANGED <<upto, window, loads, pending>> /\ pc' \in InSink
    BY <2>0, <2>2 DEF WindowStays, Base
  <2> QED BY <1>7, <2>1, <2>2, ChunkIsTaken
<1>8. CASE SendEvent
  <2>1. /\ pc \in InSink /\ pc = "event" /\ Publish(Sink, Head(left))
        /\ UNCHANGED <<window, checkpoint, pending, settled, config, changes, files>>
    BY <1>8 DEF SendEvent, InSink, ChunkDone, bounds
  <2>2. CASE Tail(left) = <<>>
    <3>1. ChunkDone  BY <1>8, <2>2 DEF SendEvent
    <3>2. Kind[Sink] = "kafka"  BY <2>1 DEF Inv, Positions, AtEvent
    <3>3. Reached  BY <1>8, <2>1, <2>2, <3>2, LastMessage DEF Reached
    <3> QED BY <2>1, <3>1, <3>3 DEF ChunkSent, Base
  <2>3. CASE Tail(left) # <<>>
    <3>1. UNCHANGED <<pc, upto, loads>>  BY <1>8, <2>3 DEF SendEvent
    <3> QED BY <2>1, <3>1 DEF WindowStays, Base
  <2> QED BY <2>2, <2>3
<1>9. CASE Stat
  <2>1. /\ pc \in InSink /\ pc = "stat"
        /\ UNCHANGED <<window, checkpoint, pending, settled, config, changes, files, topic>>
    BY <1>9 DEF Stat, InSink, ChunkDone, outside, bounds
  <2>2. CASE Exists(Sink, Chunk)
    <3>1. ChunkDone  BY <1>9, <2>2 DEF Stat
    <3>2. Reached  BY <1>00, <2>1, <2>2 DEF Reached, Exists, InFiles
    <3> QED BY <2>1, <3>1, <3>2 DEF ChunkSent, Base
  <2>3. CASE ~Exists(Sink, Chunk)
    <3>1. UNCHANGED <<upto, loads>> /\ pc' \in InSink  BY <1>9, <2>3 DEF Stat
    <3> QED BY <2>1, <3>1 DEF WindowStays, Base
  <2> QED BY <2>2, <2>3
<1>10. CASE WriteTemp
  BY <1>10 DEF WriteTemp, WindowStays, Base, outside, bounds
<1>11. CASE Rename
  <2>1. /\ pc \in InSink /\ pc \in InFiles /\ ChunkDone
        /\ UNCHANGED <<window, checkpoint, pending, settled, config, changes, topic>>
    BY <1>11 DEF Rename, InSink, InFiles, ChunkDone, bounds
  <2>2. PICK f \in temps[Sink] : f.name = FileName(Chunk) /\ files' = [files EXCEPT ![Sink] = @ \cup {f}]
    BY <1>11 DEF Rename
  <2>3. f = File(Chunk)  BY <1>11, <2>2 DEF Rename, Inv, Positions, AtFile
  <2>4. f \in files'[Sink]  BY <1>0, <2>1, <2>2
  <2>5. Reached  BY <1>00, <2>1, <2>2, <2>4 DEF Reached
  <2> QED BY <2>1, <2>2, <2>3, <2>5 DEF ChunkSent, Base
<1>12. CASE Put
  <2>1. /\ pc \in InSink /\ pc \in InFiles /\ ChunkDone
        /\ UNCHANGED <<window, checkpoint, pending, settled, config, changes, topic>>
    BY <1>12 DEF Put, InSink, InFiles, ChunkDone, bounds
  <2>2. CASE Exists(Sink, Chunk)
    <3>1. files' = files  BY <1>12, <2>2 DEF Put
    <3>2. Reached  BY <1>00, <2>1, <2>2, <3>1 DEF Reached, Exists
    <3> QED BY <2>1, <3>1, <3>2 DEF ChunkSent, Base
  <2>3. CASE ~Exists(Sink, Chunk)
    <3>1. files' = [files EXCEPT ![Sink] = @ \cup {File(Chunk)}]  BY <1>12, <2>3 DEF Put, Finished
    <3>2. File(Chunk) \in files'[Sink] /\ File(Chunk).name = FileName(Chunk)
      BY <1>0, <2>1, <3>1 DEF File
    <3>3. Reached  BY <1>00, <2>1, <3>2 DEF Reached
    <3> QED BY <2>1, <3>1, <3>3 DEF ChunkSent, Base
  <2> QED BY <2>2, <2>3
<1>13. CASE WindowSent
  BY <1>13 DEF WindowSent, outside, bounds
<1>14. CASE EndPass
  BY <1>14 DEF EndPass, WindowStays, Base, outside, bounds
<1>15. CASE Store
  BY <1>15 DEF Store, WindowStays, PassEnds, Base, outside, bounds
<1>16. CASE AppendRecord
  BY <1>16 DEF AppendRecord, WindowStays, Base, pass, outside, bounds
<1>17. CASE Refresh
  BY <1>17 DEF Refresh, outside
<1>18. CASE Crash
  BY <1>18 DEF Crash, PassEnds
<1>19. CASE SendEventFails
  BY <1>19 DEF SendEventFails, FailPass, PassEnds
<1>20. CASE StorageFails
  BY <1>20 DEF StorageFails, FailPass, PassEnds, Finished, InFiles
<1>21. CASE StoreFails
  BY <1>21 DEF StoreFails, PassEnds, Base, outside
<1>22. CASE UNCHANGED vars
  BY <1>22 DEF vars, WindowStays, Base, pass, outside, bounds
<1> QED
  BY <1>1, <1>2, <1>3, <1>4, <1>5, <1>6, <1>7, <1>8, <1>9, <1>10, <1>11, <1>12, <1>13, <1>14,
     <1>15, <1>16, <1>17, <1>18, <1>19, <1>20, <1>21, <1>22 DEF Next, Replay

---------------------------------------------------------------------------
(* The shape of the state.                                                 *)

LEMMA NumbersStay ==
  ASSUME Inv, [Next]_vars
  PROVE  Numbers'
<1>0. Numbers /\ LastLsn \in Nat  BY DeliveryAssumption DEF DeliveryAssumption, Inv, Shaped
<1>00. /\ Handled \in Nat /\ Base \in Nat /\ Base <= Handled /\ checkpoint <= Base
       /\ (pc # "idle" => Handled <= upto)
       /\ (window # <<>> => Last(window).lsn = Handled)
  <2>1. pc # "idle" => Base + Len(window) <= upto  BY DEF Inv, Shaped, Windows
  <2> QED BY <2>1, HandledIsEnd DEF Inv
<1>. USE DEF Pcs, InSink, Numbers
<1>1. CASE OpenPass
  BY <1>0, <1>1 DEF OpenPass, bounds
<1>2. CASE Collect  BY <1>0, <1>2 DEF Collect, bounds
<1>3. CASE Quarantine
  BY <1>0, <1>00, <1>3 DEF Quarantine, bounds
<1>4. CASE SendWindow
  BY <1>0, <1>4 DEF SendWindow, bounds
<1>5. CASE PlanSink
  BY <1>0, <1>5 DEF PlanSink, bounds
<1>6. CASE RejectChunk
  BY <1>0, <1>6 DEF RejectChunk, FailPass, PassOver, bounds
<1>7. CASE TakeChunk
  BY <1>0, <1>7, ChunkIsTaken DEF TakeChunk, ChunkDone, bounds
<1>8. CASE SendEvent
  BY <1>0, <1>8 DEF SendEvent, ChunkDone, bounds
<1>9. CASE Stat
  BY <1>0, <1>9 DEF Stat, ChunkDone, bounds
<1>10. CASE WriteTemp
  BY <1>0, <1>10 DEF WriteTemp, bounds
<1>11. CASE Rename
  BY <1>0, <1>11 DEF Rename, ChunkDone, bounds
<1>12. CASE Put
  BY <1>0, <1>12 DEF Put, ChunkDone, bounds
<1>13. CASE WindowSent
  <2>1. pc = "plan" /\ window # <<>>  BY <1>13 DEF WindowSent, Inv, Shaped, Windows
  <2>2. pending' = Handled /\ UNCHANGED <<available, appends, config, checkpoint, upto, bounds>>
    BY <1>00, <1>13, <2>1 DEF WindowSent
  <2>3. pc' \in {"collect", "store"}  BY <1>13 DEF WindowSent
  <2> QED BY <1>0, <1>00, <2>1, <2>2, <2>3 DEF bounds
<1>14. CASE EndPass
  BY <1>0, <1>14 DEF EndPass, bounds
<1>15. CASE Store
  BY <1>0, <1>15 DEF Store, PassOver, bounds
<1>16. CASE AppendRecord
  BY <1>0, <1>16 DEF AppendRecord, pass, bounds
<1>17. CASE Refresh
  BY <1>0, <1>17 DEF Refresh, pass
<1>18. CASE Crash
  BY <1>0, <1>18 DEF Crash, PassOver
<1>19. CASE SendEventFails
  BY <1>0, <1>19 DEF SendEventFails, FailPass, PassOver
<1>20. CASE StorageFails
  BY <1>0, <1>20 DEF StorageFails, FailPass, PassOver
<1>21. CASE StoreFails
  BY <1>0, <1>21 DEF StoreFails, PassOver
<1>22. CASE UNCHANGED vars
  BY <1>0, <1>22 DEF vars, pass, bounds
<1> QED
  BY <1>1, <1>2, <1>3, <1>4, <1>5, <1>6, <1>7, <1>8, <1>9, <1>10, <1>11, <1>12, <1>13, <1>14,
     <1>15, <1>16, <1>17, <1>18, <1>19, <1>20, <1>21, <1>22 DEF Next, Replay

(* Collect adds the record after the last one handled.                     *)
LEMMA CollectAdds ==
  ASSUME Inv, Collect
  PROVE  /\ Handled + 1 \in Lsns /\ config \in Names /\ Handled = Base + Len(window)
         /\ window \in Seq([lsn : Lsns, by : Names]) /\ window' \in Seq([lsn : Lsns, by : Names])
         /\ Len(window') = Len(window) + 1 /\ window' # <<>>
         /\ \A k \in 1..Len(window) : window'[k] = window[k]
         /\ window'[Len(window) + 1] = [lsn |-> Handled + 1, by |-> config]
         /\ Base' = Base /\ Handled + 1 <= upto /\ pc' = pc /\ upto' = upto
         /\ \A s \in Sinks :
              /\ loads'[s] = loads[s] \o Now.emits[Handled + 1][s]
              /\ loads[s] \in Seq(Emitted(s)) /\ Now.emits[Handled + 1][s] \in Seq(Emitted(s))
         /\ DOMAIN loads' = Sinks
<1>1. /\ upto \in 0..available /\ available \in 0..LastLsn /\ config \in Names /\ LastLsn \in Nat
      /\ DOMAIN loads = Sinks
  BY DeliveryAssumption DEF DeliveryAssumption, Inv, Shaped, Numbers, Loads
<1>2. Handled < upto /\ Handled \in Nat /\ Handled = Base + Len(window)
  BY HandledIsEnd DEF Collect, Inv
<1>3. Handled + 1 \in Lsns /\ Handled + 1 <= upto  BY <1>1, <1>2 DEF Lsns
<1>4. /\ window' = Append(window, [lsn |-> Handled + 1, by |-> config])
      /\ loads' = [s \in Sinks |-> loads[s] \o Now.emits[Handled + 1][s]]
      /\ Base' = Base /\ pc' = pc /\ upto' = upto
  BY DEF Collect, Base
<1>5. [lsn |-> Handled + 1, by |-> config] \in [lsn : Lsns, by : Names]  BY <1>1, <1>3
<1>6. window \in Seq([lsn : Lsns, by : Names])  BY DEF Inv, Shaped, Windows
<1>7. /\ window' \in Seq([lsn : Lsns, by : Names]) /\ Len(window') = Len(window) + 1
      /\ window' # <<>> /\ \A k \in 1..Len(window) : window'[k] = window[k]
      /\ window'[Len(window) + 1] = [lsn |-> Handled + 1, by |-> config]
  BY <1>4, <1>5, <1>6, AppendProperties
<1>8. \A s \in Sinks :
        /\ loads'[s] = loads[s] \o Now.emits[Handled + 1][s]
        /\ loads[s] \in Seq(Emitted(s)) /\ Now.emits[Handled + 1][s] \in Seq(Emitted(s))
  BY <1>1, <1>3, <1>4, EmittedEvents DEF Inv, Shaped, Loads, Now
<1> QED BY <1>1, <1>2, <1>3, <1>4, <1>6, <1>7, <1>8

(* A chunk that is sent leaves the others and the rest of its own.         *)
LEMMA ChunkLeaves ==
  ASSUME Inv, ChunkSent
  PROVE  \E n \in 1..Len(loads[Sink]) :
           /\ Sink \in Sinks /\ loads[Sink] \in Seq(Emitted(Sink))
           /\ Chunk.first = loads[Sink][1].lsn /\ Chunk.last = loads[Sink][n].lsn
           /\ \A e : e \in ToSet(Chunk.events) <=> \E i \in 1..n : e = loads[Sink][i]
           /\ loads'[Sink] \in Seq(Emitted(Sink)) /\ Len(loads'[Sink]) = Len(loads[Sink]) - n
           /\ \A i \in 1..Len(loads'[Sink]) : loads'[Sink][i] = loads[Sink][n + i]
           /\ \A e : e \in ToSet(loads'[Sink]) <=> \E i \in (n + 1)..Len(loads[Sink]) : e = loads[Sink][i]
           /\ ToSet(loads[Sink]) = ToSet(Chunk.events) \cup ToSet(loads'[Sink])
           /\ \A s \in Sinks : s # Sink => loads'[s] = loads[s]
           /\ DOMAIN loads' = Sinks /\ UNCHANGED <<window, upto, pending>>
           /\ pc' \in {"plan", "chunk"} /\ (pc' = "chunk" => n < Len(loads[Sink]))
<1>1. Todo # {} /\ Loads  BY DEF Inv, Shaped, Loads, ChunkSent
<1>2. PICK n \in 1..Len(loads[Sink]) :
        /\ Sink \in Sinks /\ loads[Sink] \in Seq(Emitted(Sink)) /\ loads[Sink] # <<>>
        /\ Chunk.first = loads[Sink][1].lsn /\ Chunk.last = loads[Sink][n].lsn
        /\ Chunk.events = SubSeq(loads[Sink], 1, n) /\ Len(Chunk.events) = n
        /\ \A e : e \in ToSet(Chunk.events) <=> \E i \in 1..n : e = loads[Sink][i]
  BY <1>1, ChunkIsBeginning
<1>3. /\ loads' = [loads EXCEPT ![Sink] = SubSeq(@, n + 1, Len(@))]
      /\ UNCHANGED <<window, upto, pending>>
      /\ pc' \in {"plan", "chunk"} /\ (pc' = "chunk" => n # Len(loads[Sink]))
  BY <1>2 DEF ChunkSent, ChunkDone
<1>4. /\ loads'[Sink] = SubSeq(loads[Sink], n + 1, Len(loads[Sink]))
      /\ \A s \in Sinks : s # Sink => loads'[s] = loads[s]
      /\ DOMAIN loads' = Sinks
  BY <1>1, <1>2, <1>3 DEF Loads
<1>5. /\ loads'[Sink] \in Seq(Emitted(Sink)) /\ Len(loads'[Sink]) = Len(loads[Sink]) - n
      /\ \A i \in 1..(Len(loads[Sink]) - n) : loads'[Sink][i] = loads[Sink][n + i]
      /\ \A e : e \in ToSet(loads'[Sink]) <=> \E i \in (n + 1)..Len(loads[Sink]) : e = loads[Sink][i]
      /\ ToSet(loads[Sink]) = ToSet(Chunk.events) \cup ToSet(loads'[Sink])
  BY <1>2, <1>4, CutAfter
<1>6. pc' = "chunk" => n < Len(loads[Sink])  BY <1>2, <1>3, LenProperties
<1> QED BY <1>2, <1>3, <1>4, <1>5, <1>6

LEMMA WindowsStay ==
  ASSUME Inv, [Next]_vars
  PROVE  Windows'
<1> DEFINE Follows ==
      /\ window' \in Seq([lsn : Lsns, by : Names])
      /\ \A k \in 1..Len(window') : window'[k].lsn = Base' + k
    Continues ==
      /\ Base' + Len(window') <= (IF pc' = "idle" THEN Base' ELSE upto')
      /\ pc' \in {"plan"} \cup InSink => window' # <<>>
      /\ pc' \in {"idle", "store"} => window' = <<>>
<1> SUFFICES Follows /\ Continues  BY Zenon DEF Windows
<1>0. Windows /\ Numbers  BY DEF Inv, Shaped
<1>00. /\ Handled = Base + Len(window) /\ Handled \in Nat /\ Base \in Nat /\ Len(window) \in Nat
       /\ checkpoint \in Nat /\ checkpoint <= Base /\ Base <= available
       /\ (window # <<>> => Last(window).lsn = Base + Len(window))
       /\ (window = <<>> <=> Len(window) = 0)
       /\ available \in Nat /\ upto \in Nat
  BY <1>0, HandledIsEnd, DeliveryAssumption DEF DeliveryAssumption, Inv, Numbers
<1>000. ASSUME window' = <<>> PROVE Len(window') = 0 /\ Follows
  <2>1. <<>> \in Seq([lsn : Lsns, by : Names]) /\ Len(<<>>) = 0 /\ 1..0 = {}  OBVIOUS
  <2>2. Len(window') = 0 /\ window' \in Seq([lsn : Lsns, by : Names])  BY <1>000, <2>1
  <2>3. \A k \in 1..Len(window') : window'[k].lsn = Base' + k  BY <2>1, <2>2
  <2> QED BY <2>2, <2>3
<1> HIDE DEF Follows
<1>1. CASE WindowStays
  <2>1. /\ window' = window /\ Base' = Base
    BY <1>1 DEF WindowStays
  <2>2. /\ Base' + Len(window') <= (IF pc' = "idle" THEN Base' ELSE upto')
        /\ pc' \in {"plan"} \cup InSink => window' # <<>>
        /\ pc' \in {"idle", "store"} => window' = <<>>
    BY <1>0, <1>00, <1>1, <2>1 DEF WindowStays, PcMoves, Windows, InSink
  <2>3. Follows  BY <1>0, <2>1, Zenon DEF Follows, Windows
  <2> QED BY <2>2, <2>3
<1>2. CASE Collect
  <2>1. /\ Base' = Base /\ pc' = pc /\ upto' = upto /\ Handled + 1 <= upto
        /\ window' \in Seq([lsn : Lsns, by : Names])
        /\ Len(window') = Len(window) + 1 /\ window' # <<>>
        /\ \A k \in 1..Len(window) : window'[k] = window[k]
        /\ window'[Len(window) + 1].lsn = Handled + 1
    BY <1>2, CollectAdds
  <2>2. pc = "collect"  BY <1>2 DEF Collect
  <2>3. ASSUME NEW k \in 1..Len(window') PROVE window'[k].lsn = Base' + k
    <3>1. k \in 1..Len(window) \/ k = Len(window) + 1  BY <1>00, <2>1
    <3>2. \A i \in 1..Len(window) : window[i].lsn = Base + i  BY <1>0 DEF Windows
    <3>3. CASE k = Len(window) + 1  BY <1>00, <2>1, <3>3
    <3>4. CASE k \in 1..Len(window)  BY <2>1, <3>2, <3>4
    <3> QED BY <3>1, <3>3, <3>4
  <2>4. Follows  BY <2>1, <2>3 DEF Follows
  <2> QED BY <1>00, <2>1, <2>2, <2>4 DEF InSink
<1>3. CASE Quarantine
  <2>1. /\ pc = "collect" /\ pc' = "collect" /\ window' = <<>> /\ window = <<>>
        /\ upto' = upto /\ Base' = Handled + 1 /\ Handled < upto
    BY <1>00, <1>3 DEF Quarantine, Base
  <2> QED BY <1>00, <1>000, <2>1 DEF InSink
<1>4. CASE ChunkSent
  <2>1. /\ UNCHANGED <<window, upto>> /\ pc' \in {"plan", "chunk"} /\ Base' = Base /\ pc \in InSink
    BY <1>4, ChunkLeaves DEF ChunkSent
  <2>2. Follows  BY <1>0, <2>1, Zenon DEF Follows, Windows
  <2> QED BY <1>0, <1>00, <2>1, <2>2 DEF Windows, InSink
<1>5. CASE PassEnds
  <2>1. window' = <<>> /\ pc' = "idle" /\ pending' = 0 /\ checkpoint' \in {checkpoint, Base}
    BY <1>5 DEF PassEnds, PassOver
  <2>2. Base' \in Nat  BY <1>00, <2>1 DEF Base
  <2>3. Len(window') = 0 /\ Follows  BY <1>000, <2>1
  <2>4. Base' + Len(window') <= Base'
    <3>1. \A b \in Nat : b + 0 <= b  OBVIOUS
    <3> QED BY <2>2, <2>3, <3>1, Zenon
  <2> QED BY <2>1, <2>3, <2>4 DEF InSink
<1>6. CASE WindowSent
  <2>1. pc = "plan"  BY <1>6 DEF WindowSent
  <2>2. window # <<>> /\ Handled <= upto  BY <1>0, <1>00, <2>1 DEF Windows, InSink
  <2>3. window' = <<>> /\ pc' \in {"collect", "store"} /\ pending' = Handled /\ upto' = upto
    BY <1>00, <1>6, <2>2 DEF WindowSent
  <2>4. Base' = Handled  BY <1>00, <2>2, <2>3 DEF Base
  <2>5. Len(window') = 0 /\ Follows  BY <1>000, <2>3
  <2>6. Base' + Len(window') <= upto' /\ pc' # "idle"  BY <1>00, <2>2, <2>3, <2>4, <2>5
  <2> QED BY <2>3, <2>5, <2>6 DEF InSink
<1>7. CASE Refresh
  <2>1. UNCHANGED <<window, pc, upto>> /\ Base' = Base  BY <1>7 DEF Refresh, pass, Base
  <2>2. Follows  BY <1>0, <2>1, Zenon DEF Follows, Windows
  <2> QED BY <1>0, <2>1, <2>2 DEF Windows
<1> QED BY <1>1, <1>2, <1>3, <1>4, <1>5, <1>6, <1>7, StepKinds DEF Kinds7

LEMMA LoadsStay ==
  ASSUME Inv, [Next]_vars
  PROVE  Loads'
<1>0. Loads  BY DEF Inv, Shaped
<1>1. CASE WindowStays
  <2>1. UNCHANGED <<window, loads>> /\ Todo' = Todo  BY <1>1 DEF WindowStays, Todo
  <2>2. pc' \in InSink => Todo # {}  BY <1>0, <1>1 DEF WindowStays, PcMoves, InSink, Loads
  <2> QED BY <1>0, <2>1, <2>2 DEF Loads
<1>2. CASE Collect
  <2>1. /\ \A s \in Sinks :
             /\ loads'[s] = loads[s] \o Now.emits[Handled + 1][s]
             /\ loads[s] \in Seq(Emitted(s)) /\ Now.emits[Handled + 1][s] \in Seq(Emitted(s))
        /\ DOMAIN loads' = Sinks /\ window' # <<>> /\ pc' = pc
    BY <1>2, CollectAdds
  <2>2. ASSUME NEW s \in Sinks PROVE loads'[s] \in Seq(Emitted(s))
    <3> DEFINE old == loads[s]
               new == Now.emits[Handled + 1][s]
    <3>1. old \in Seq(Emitted(s)) /\ new \in Seq(Emitted(s)) /\ loads'[s] = old \o new  BY <2>1
    <3> HIDE DEF old, new
    <3> QED BY <3>1, InBoth
  <2>3. pc' \notin InSink  BY <1>2 DEF Collect, InSink
  <2> QED BY <2>1, <2>2, <2>3 DEF Loads
<1>3. CASE Quarantine
  BY <1>0, <1>3 DEF Quarantine, Loads, InSink
<1>4. CASE ChunkSent
  <2>1. /\ Sink \in Sinks /\ loads'[Sink] \in Seq(Emitted(Sink)) /\ DOMAIN loads' = Sinks
        /\ window' = window /\ \A s \in Sinks : s # Sink => loads'[s] = loads[s]
    BY <1>4, ChunkLeaves
  <2>2. \A s \in Sinks : loads'[s] \in Seq(Emitted(s))  BY <1>0, <2>1 DEF Loads
  <2>3. window # <<>>  BY <1>4 DEF ChunkSent, Inv, Shaped, Windows
  <2>4. pc' \in InSink => Todo' # {}
    <3>1. SUFFICES ASSUME pc' \in InSink PROVE Todo' # {}  OBVIOUS
    <3>2. PICK n \in 1..Len(loads[Sink]) :
            /\ Len(loads'[Sink]) = Len(loads[Sink]) - n
            /\ pc' \in {"plan", "chunk"} /\ (pc' = "chunk" => n < Len(loads[Sink]))
      BY <1>4, ChunkLeaves
    <3>3. Len(loads[Sink]) \in Nat /\ n < Len(loads[Sink])
      BY <1>0, <2>1, <3>1, <3>2, LenProperties DEF InSink, Loads
    <3>4. Len(loads'[Sink]) > 0  BY <3>2, <3>3
    <3>5. loads'[Sink] # <<>>  BY <3>4
    <3> QED BY <2>1, <3>5 DEF Todo
  <2> QED BY <2>1, <2>2, <2>3, <2>4 DEF Loads
<1>5. CASE PassEnds
  <2>1. loads' = NoLoads /\ pc' = "idle"  BY <1>5 DEF PassEnds, PassOver
  <2>2. \A s \in Sinks : <<>> \in Seq(Emitted(s))  OBVIOUS
  <2> QED BY <2>1, <2>2 DEF Loads, NoLoads, InSink
<1>6. CASE WindowSent
  <2>1. loads' = loads /\ pc' \notin InSink /\ Todo = {}  BY <1>6 DEF WindowSent, InSink
  <2>2. \A s \in Sinks : loads'[s] = <<>>  BY <2>1 DEF Todo
  <2> QED BY <1>0, <2>1, <2>2 DEF Loads
<1>7. CASE Refresh
  BY <1>0, <1>7 DEF Refresh, pass, Loads, Todo
<1> QED BY <1>1, <1>2, <1>3, <1>4, <1>5, <1>6, <1>7, StepKinds DEF Kinds7

(* What a chunk that becomes a file is.                                    *)
LEMMA FileOfChunk ==
  ASSUME Inv, FilesGrow, files' # files
  PROVE  /\ pc \in InFiles /\ Sink \in Sinks /\ Kind[Sink] = "parquet"
         /\ files' = [files EXCEPT ![Sink] = @ \cup {File(Chunk)}] /\ DOMAIN files' = Sinks
         /\ \A s \in Sinks : \A f : f \in files'[s] => f \in files[s] \/ (s = Sink /\ f = File(Chunk))
         /\ \A s \in Sinks : files[s] \subseteq files'[s]
<1>1. pc \in InFiles /\ files' = [files EXCEPT ![Sink] = @ \cup {File(Chunk)}]  BY DEF FilesGrow
<1>2. Sink \in Sinks  BY <1>1, SinkIsFirst DEF Inv, Shaped, Loads, InFiles, InSink
<1>3. Kind[Sink] = "parquet"  BY <1>1 DEF Inv, Positions, AtFile
<1>4. DOMAIN files = Sinks  BY DEF Inv, Shaped, Outside
<1> QED BY <1>1, <1>2, <1>3, <1>4

(* What the sinks hold stays in them.                                      *)
LEMMA HeldStays ==
  ASSUME Inv, [Next]_vars
  PROVE  /\ \A s \in Sinks : Held(s) \subseteq Held(s)'
         /\ \A s \in Sinks : files[s] \subseteq files'[s]
         /\ \A s \in Sinks : ToSet(topic[s]) \subseteq ToSet(topic'[s])
<1>1. FilesGrow /\ TopicGrows  BY StepKinds
<1>2. \A s \in Sinks : files[s] \subseteq files'[s]  BY <1>1, FileOfChunk
<1>3. \A s \in Sinks : ToSet(topic[s]) \subseteq ToSet(topic'[s])
  <2>1. CASE topic' = topic  BY <2>1
  <2>2. CASE pc = "event" /\ Publish(Sink, Head(left))
    <3>1. Sink \in Sinks /\ Head(left) \in Emitted(Sink)
      <4>1. left \in Seq(Emitted(Sink)) /\ left # <<>>  BY <2>2 DEF Inv, Positions, AtEvent
      <4> QED BY <2>2, <4>1, HeadAndTail, SinkIsFirst DEF Inv, Shaped, Loads, InSink
    <3>2. /\ \A t \in Sinks : t # Sink => topic'[t] = topic[t]
          /\ ToSet(topic'[Sink]) = ToSet(topic[Sink]) \cup {Head(left)}
      BY <2>2, <3>1, PublishAdds DEF Inv, Shaped
    <3> QED BY <3>1, <3>2
  <2> QED BY <1>1, <2>1, <2>2 DEF TopicGrows
<1>4. ASSUME NEW s \in Sinks PROVE Held(s) \subseteq Held(s)'
  <2>1. EventsAt(files[s]) \subseteq EventsAt(files'[s])  BY <1>2 DEF EventsAt
  <2> QED BY <1>3, <2>1 DEF Held
<1> QED BY <1>2, <1>3, <1>4

LEMMA OutsideStays ==
  ASSUME Inv, [Next]_vars
  PROVE  Outside'
<1>0. Outside /\ FilesGrow /\ TopicGrows  BY StepKinds DEF Inv, Shaped
<1>1. /\ DOMAIN topic' = Sinks /\ \A s \in Sinks : topic'[s] \in Seq(Emitted(s))
      /\ \A s \in Sinks : Kind[s] # "kafka" => topic'[s] = <<>>
  <2>1. CASE topic' = topic  BY <1>0, <2>1 DEF Outside
  <2>2. CASE pc = "event" /\ Publish(Sink, Head(left))
    <3>1. /\ Sink \in Sinks /\ Kind[Sink] = "kafka"
          /\ left \in Seq(Emitted(Sink)) /\ left # <<>>
      BY <2>2, SinkIsFirst DEF Inv, Shaped, Loads, InSink, Positions, AtEvent
    <3>2. Head(left) \in Emitted(Sink)  BY <3>1, HeadAndTail
    <3>3. /\ DOMAIN topic' = Sinks /\ \A t \in Sinks : t # Sink => topic'[t] = topic[t]
          /\ topic'[Sink] \in Seq(Emitted(Sink))
      BY <1>0, <2>2, <3>1, <3>2, PublishAdds
    <3> QED BY <1>0, <3>1, <3>3 DEF Outside
  <2> QED BY <1>0, <2>1, <2>2 DEF TopicGrows
<1>2. /\ DOMAIN files' = Sinks
      /\ \A s \in Sinks : \A f \in files'[s] : f.events \in Seq(Emitted(s))
      /\ \A s \in Sinks : Kind[s] # "parquet" => files'[s] = {}
  <2>1. CASE files' = files  BY <1>0, <2>1 DEF Outside
  <2>2. CASE files' # files
    <3>1. /\ pc \in InFiles /\ Sink \in Sinks /\ Kind[Sink] = "parquet" /\ DOMAIN files' = Sinks
          /\ files' = [files EXCEPT ![Sink] = @ \cup {File(Chunk)}]
          /\ \A s \in Sinks : \A f : f \in files'[s] => f \in files[s] \/ (s = Sink /\ f = File(Chunk))
      BY <1>0, <2>2, FileOfChunk
    <3>2. Chunk.events \in Seq(Emitted(Sink))
      BY <3>1, ChunkIsBeginning DEF Inv, Shaped, Loads, InFiles, InSink
    <3>3. File(Chunk).events \in Seq(Emitted(Sink))  BY <3>2 DEF File
    <3>4. \A s \in Sinks : \A f \in files'[s] : f.events \in Seq(Emitted(s))
      BY <1>0, <3>1, <3>3 DEF Outside
    <3>5. \A s \in Sinks : Kind[s] # "parquet" => files'[s] = {}
      BY <1>0, <3>1 DEF Outside
    <3> QED BY <3>1, <3>4, <3>5
  <2> QED BY <2>1, <2>2
<1>3. DOMAIN temps' = Sinks
  <2>1. DOMAIN temps = Sinks  BY <1>0 DEF Outside
  <2>2. temps' = temps \/ \E t : temps' = [temps EXCEPT ![Sink] = t]
    BY DEF Next, Replay, vars, OpenPass, Collect, Quarantine, SendWindow, PlanSink, RejectChunk,
      TakeChunk, SendEvent, Stat, WriteTemp, Rename, Put, WindowSent, EndPass, Store, AppendRecord,
      Refresh, Crash, SendEventFails, StorageFails, StoreFails, outside, Dropped, CutShort
  <2> QED BY <2>1, <2>2
<1>4. settled' \in [Lsns -> Names \cup {Unsent, Quarantined}]
  <2>0. settled \in [Lsns -> Names \cup {Unsent, Quarantined}]  BY <1>0 DEF Outside
  <2>1. CASE Quarantine
    BY <2>0, <2>1 DEF Quarantine
  <2>2. CASE WindowSent
    <3>1. window \in Seq([lsn : Lsns, by : Names])  BY DEF Inv, Shaped, Windows
    <3>2. \A i \in DOMAIN window : window[i].by \in Names
      <4>1. \A i \in DOMAIN window : window[i] \in [lsn : Lsns, by : Names]  BY <3>1, LenProperties
      <4> QED BY <4>1
    <3>3. \A l \in Lsns : settled'[l] = IF \E i \in DOMAIN window : window[i].lsn = l
                                  THEN window[CHOOSE i \in DOMAIN window : window[i].lsn = l].by
                                  ELSE settled[l]
      BY <2>2 DEF WindowSent
    <3>4. settled' = [l \in Lsns |-> settled'[l]]  BY <2>2 DEF WindowSent
    <3>5. ASSUME NEW l \in Lsns PROVE settled'[l] \in Names \cup {Unsent, Quarantined}
      BY <2>0, <3>2, <3>3
    <3> QED BY <3>4, <3>5
  <2>3. CASE settled' = settled  BY <2>0, <2>3
  <2> QED BY <2>1, <2>2, <2>3, StepKinds
        DEF Kinds7, WindowStays, Collect, ChunkSent, PassEnds, Refresh
<1> QED BY <1>1, <1>2, <1>3, <1>4 DEF Outside

LEMMA ShapedStays ==
  ASSUME Inv, [Next]_vars
  PROVE  Shaped'
BY NumbersStay, WindowsStay, LoadsStay, OutsideStays DEF Shaped

---------------------------------------------------------------------------
(* The order of the events that are left.                                  *)

LEMMA LoadsInOrderStay ==
  ASSUME Inv, [Next]_vars
  PROVE  LoadsInOrder'
<1>0. LoadsInOrder /\ Loads /\ Windows  BY DEF Inv, Shaped
<1>00. /\ Base \in Nat /\ Len(window) \in Nat /\ Handled = Base + Len(window)
  BY HandledIsEnd DEF Inv
<1>1. CASE WindowStays
  BY <1>0, <1>1 DEF WindowStays, LoadsInOrder
<1>2. CASE Collect
  <2>1. /\ Base' = Base /\ Len(window') = Len(window) + 1 /\ Handled + 1 \in Lsns
        /\ config \in Names
        /\ \A s \in Sinks :
             /\ loads'[s] = loads[s] \o Now.emits[Handled + 1][s]
             /\ loads[s] \in Seq(Emitted(s)) /\ Now.emits[Handled + 1][s] \in Seq(Emitted(s))
    BY <1>2, CollectAdds
  <2>2. SUFFICES ASSUME NEW s \in Sinks
                 PROVE  /\ \A i \in 1..Len(loads'[s]) :
                             loads'[s][i].lsn \in (Base' + 1)..(Base' + Len(window'))
                        /\ \A i, j \in 1..Len(loads'[s]) :
                             i < j => loads'[s][i].lsn <= loads'[s][j].lsn
    BY DEF LoadsInOrder
  <2> DEFINE old == loads[s]
             new == Now.emits[Handled + 1][s]
  <2>3. \A i \in 1..Len(new) : new[i].lsn = Handled + 1
    <3>1. /\ new \in Seq(ToSet(new))
          /\ \A e \in ToSet(new) : e.lsn = Handled + 1
      BY <2>1, DeliveryAssumption DEF DeliveryAssumption, IsConfig, Now
    <3> HIDE DEF new
    <3> QED BY <3>1, LenProperties
  <2>4. old \in Seq(Emitted(s)) /\ new \in Seq(Emitted(s)) /\ loads'[s] = old \o new  BY <2>1
  <2>5. /\ \A i \in 1..Len(old) : old[i].lsn \in (Base + 1)..(Base + Len(window))
        /\ \A i, j \in 1..Len(old) : i < j => old[i].lsn <= old[j].lsn
    BY <1>0 DEF LoadsInOrder
  <2> HIDE DEF old, new
  <2>6. /\ Len(old) \in Nat /\ Len(new) \in Nat /\ Len(loads'[s]) = Len(old) + Len(new)
        /\ \A i \in 1..(Len(old) + Len(new)) :
             loads'[s][i] = IF i <= Len(old) THEN old[i] ELSE new[i - Len(old)]
    BY <2>4, ConcatProperties, LenProperties
  <2>7. ASSUME NEW i \in 1..Len(loads'[s])
        PROVE  /\ i <= Len(old) => i \in 1..Len(old) /\ loads'[s][i] = old[i]
               /\ ~(i <= Len(old)) => loads'[s][i].lsn = Handled + 1
    <3>1. CASE i <= Len(old)  BY <2>6, <3>1
    <3>2. CASE ~(i <= Len(old))
      <4>1. i - Len(old) \in 1..Len(new)  BY <2>6, <3>2
      <4> QED BY <2>3, <2>6, <3>2, <4>1
    <3> QED BY <3>1, <3>2
  <2>8. ASSUME NEW i \in 1..Len(loads'[s])
        PROVE  loads'[s][i].lsn \in (Base' + 1)..(Base' + Len(window'))
    <3>1. CASE i <= Len(old)  BY <1>00, <2>1, <2>5, <2>7, <3>1
    <3>2. CASE ~(i <= Len(old))  BY <1>00, <2>1, <2>7, <3>2
    <3> QED BY <3>1, <3>2
  <2>9. ASSUME NEW i \in 1..Len(loads'[s]), NEW j \in 1..Len(loads'[s]), i < j
        PROVE  loads'[s][i].lsn <= loads'[s][j].lsn
    <3>1. CASE j <= Len(old)
      <4>1. i <= Len(old)  BY <2>6, <2>9, <3>1
      <4> QED BY <2>5, <2>7, <2>9, <3>1, <4>1
    <3>2. CASE ~(j <= Len(old)) /\ i <= Len(old)
      <4>1. loads'[s][i].lsn \in (Base + 1)..(Base + Len(window))  BY <2>5, <2>7, <3>2
      <4>2. loads'[s][j].lsn = Base + Len(window) + 1  BY <1>00, <2>7, <3>2
      <4> QED BY <1>00, <4>1, <4>2
    <3>3. CASE ~(j <= Len(old)) /\ ~(i <= Len(old))
      <4>1. loads'[s][i].lsn = Handled + 1 /\ loads'[s][j].lsn = Handled + 1  BY <2>7, <3>3
      <4> QED BY <1>00, <4>1
    <3> QED BY <3>1, <3>2, <3>3
  <2> QED BY <2>8, <2>9
<1>3. CASE Quarantine
  <2>1. \A s \in Sinks : loads'[s] = <<>>  BY <1>0, <1>3 DEF Quarantine, Loads
  <2>2. \A s \in Sinks : Len(loads'[s]) = 0 /\ 1..Len(loads'[s]) = {}  BY <2>1
  <2> QED BY <2>2 DEF LoadsInOrder
<1>4. CASE ChunkSent
  <2>1. PICK n \in 1..Len(loads[Sink]) :
          /\ Sink \in Sinks /\ loads[Sink] \in Seq(Emitted(Sink))
          /\ Len(loads'[Sink]) = Len(loads[Sink]) - n
          /\ \A i \in 1..Len(loads'[Sink]) : loads'[Sink][i] = loads[Sink][n + i]
          /\ \A s \in Sinks : s # Sink => loads'[s] = loads[s]
          /\ window' = window
    BY <1>4, ChunkLeaves
  <2>2. Base' = Base /\ Len(loads[Sink]) \in Nat  BY <1>4, <2>1, LenProperties DEF ChunkSent
  <2>3. SUFFICES ASSUME NEW s \in Sinks
                 PROVE  /\ \A i \in 1..Len(loads'[s]) :
                             loads'[s][i].lsn \in (Base + 1)..(Base + Len(window))
                        /\ \A i, j \in 1..Len(loads'[s]) :
                             i < j => loads'[s][i].lsn <= loads'[s][j].lsn
    BY <2>1, <2>2 DEF LoadsInOrder
  <2>4. CASE s # Sink  BY <1>0, <2>1, <2>4 DEF LoadsInOrder
  <2>5. CASE s = Sink
    <3>1. \A i \in 1..Len(loads'[s]) : n + i \in 1..Len(loads[s]) /\ loads'[s][i] = loads[s][n + i]
      BY <2>1, <2>2, <2>5
    <3>2. \A i, j \in 1..Len(loads'[s]) : i < j => n + i < n + j  BY <2>1, <2>2, <2>5
    <3> QED BY <1>0, <3>1, <3>2 DEF LoadsInOrder
  <2> QED BY <2>4, <2>5
<1>5. CASE PassEnds
  <2>1. \A s \in Sinks : loads'[s] = <<>>  BY <1>5 DEF PassEnds, PassOver, NoLoads
  <2>2. \A s \in Sinks : Len(loads'[s]) = 0 /\ 1..Len(loads'[s]) = {}  BY <2>1
  <2> QED BY <2>2 DEF LoadsInOrder
<1>6. CASE WindowSent
  <2>1. \A s \in Sinks : loads'[s] = <<>>  BY <1>6 DEF WindowSent, Todo
  <2>2. \A s \in Sinks : Len(loads'[s]) = 0 /\ 1..Len(loads'[s]) = {}  BY <2>1
  <2> QED BY <2>2 DEF LoadsInOrder
<1>7. CASE Refresh
  BY <1>0, <1>7 DEF Refresh, pass, LoadsInOrder, Base
<1> QED BY <1>1, <1>2, <1>3, <1>4, <1>5, <1>6, <1>7, StepKinds DEF Kinds7

---------------------------------------------------------------------------
(* Who emits what.                                                         *)

(* Only a refresh changes the configuration, and it is counted.            *)
LEMMA ConfigStays ==
  ASSUME Inv, [Next]_vars
  PROVE  /\ changes \in Nat /\ changes' \in Nat /\ config \in Names /\ config' \in Names
         /\ changes' = 0 => changes = 0
         /\ changes' = 0 \/ ~Refresh =>
              /\ UNCHANGED <<config, changes>> /\ Now' = Now
              /\ \A l \in Lsns : Known(l)' = Known(l)
         /\ \A s \in Sinks : Steady(s)' => Steady(s)
         /\ \A s \in Sinks, l \in Lsns : Steady(s)' => Now'.emits[l][s] = Now.emits[l][s]
<1>1. changes \in Nat /\ changes' \in Nat /\ config \in Names /\ config' \in Names
  BY NumbersStay DEF Inv, Shaped, Numbers
<1>2. CASE ~Refresh
  <2>1. UNCHANGED <<config, changes>>
    BY <1>2, StepKinds DEF Kinds7, WindowStays, Collect, Quarantine, ChunkSent, PassEnds, WindowSent, bounds
  <2> QED BY <1>1, <2>1 DEF Now, Known, Steady
<1>3. CASE Refresh
  <2>1. changes' = changes + 1  BY <1>3 DEF Refresh
  <2>2. changes' # 0  BY <1>1, <2>1
  <2>3. \A s \in Sinks : Steady(s)' => Agreed(s)  BY <2>2 DEF Steady, Agreed
  <2>4. \A s \in Sinks, l \in Lsns : Agreed(s) => Now'.emits[l][s] = Now.emits[l][s]
    BY <1>1 DEF Agreed, Now
  <2> QED BY <1>1, <1>3, <2>2, <2>3, <2>4 DEF Steady
<1> QED BY <1>2, <1>3

LEMMA OneVoiceStays ==
  ASSUME Inv, [Next]_vars
  PROVE  OneVoice'
<1> SUFFICES ASSUME changes' = 0
             PROVE  /\ \A k \in 1..Len(window') :
                         window'[k].by = config /\ window'[k].lsn \in Lsns /\ Known(window'[k].lsn)
                    /\ \A l \in Lsns : settled'[l] \in {Unsent, Quarantined, config}
                    /\ \A l \in Lsns : settled'[l] = Quarantined => ~Known(l)
  BY ConfigStays DEF OneVoice
<1>0. /\ \A k \in 1..Len(window) :
           window[k].by = config /\ window[k].lsn \in Lsns /\ Known(window[k].lsn)
      /\ \A l \in Lsns : settled[l] \in {Unsent, Quarantined, config}
      /\ \A l \in Lsns : settled[l] = Quarantined => ~Known(l)
  <2>1. changes = 0  BY ConfigStays
  <2>2. ASSUME NEW k \in 1..Len(window) PROVE window[k].lsn \in Lsns
    <3>1. window \in Seq([lsn : Lsns, by : Names])  BY DEF Inv, Shaped, Windows
    <3>2. window[k] \in [lsn : Lsns, by : Names]  BY <3>1, ElementOfSeq
    <3> QED BY <3>2
  <2> QED BY <2>1, <2>2 DEF Inv, OneVoice
<1>1. CASE WindowStays  BY <1>0, <1>1 DEF WindowStays
<1>2. CASE Collect
  <2>1. /\ Len(window') = Len(window) + 1 /\ Len(window) \in Nat /\ Handled + 1 \in Lsns
        /\ \A k \in 1..Len(window) : window'[k] = window[k]
        /\ window'[Len(window) + 1] = [lsn |-> Handled + 1, by |-> config]
    BY <1>2, CollectAdds, HandledIsEnd DEF Inv
  <2>2. Known(Handled + 1) /\ settled' = settled  BY <1>2 DEF Collect
  <2>3. ASSUME NEW k \in 1..Len(window')
        PROVE  window'[k].by = config /\ window'[k].lsn \in Lsns /\ Known(window'[k].lsn)
    <3>1. CASE k \in 1..Len(window)  BY <1>0, <2>1, <3>1
    <3>2. CASE k = Len(window) + 1  BY <2>1, <2>2, <3>2
    <3> QED BY <2>1, <3>1, <3>2
  <2> QED BY <1>0, <2>2, <2>3
<1>3. CASE Quarantine
  <2>1. /\ settled' = [settled EXCEPT ![Handled + 1] = Quarantined] /\ window' = window
        /\ ~Known(Handled + 1)
    BY <1>3 DEF Quarantine
  <2>2. DOMAIN settled = Lsns  BY DEF Inv, Shaped, Outside
  <2> QED BY <1>0, <2>1, <2>2
<1>4. CASE ChunkSent  BY <1>0, <1>4 DEF ChunkSent, ChunkDone
<1>5. CASE PassEnds
  <2>1. window' = <<>> /\ settled' = settled  BY <1>5 DEF PassEnds, PassOver
  <2>2. 1..Len(window') = {}  BY <2>1
  <2> QED BY <1>0, <2>1, <2>2
<1>6. CASE WindowSent
  <2>1. window' = <<>>  BY <1>6 DEF WindowSent
  <2>2. 1..Len(window') = {}  BY <2>1
  <2>3. DOMAIN window = 1..Len(window)  BY LenProperties DEF Inv, Shaped, Windows
  <2>4. \A l \in Lsns : \/ settled'[l] = settled[l]
                        \/ \E k \in 1..Len(window) : settled'[l] = window[k].by
    BY <1>6, <2>3 DEF WindowSent
  <2>5. \A l \in Lsns : settled'[l] = settled[l] \/ settled'[l] = config  BY <1>0, <2>4
  <2>6. config # Quarantined
    BY ConfigStays, DeliveryAssumption DEF DeliveryAssumption
  <2> QED BY <1>0, <2>2, <2>5, <2>6
<1>7. CASE Refresh
  <2>1. UNCHANGED <<window, settled>>  BY <1>7 DEF Refresh, pass
  <2> QED BY <1>0, <2>1
<1> QED BY <1>1, <1>2, <1>3, <1>4, <1>5, <1>6, <1>7, StepKinds DEF Kinds7

LEMMA LoadsAreNowStay ==
  ASSUME Inv, [Next]_vars
  PROVE  LoadsAreNow'
<1> SUFFICES ASSUME NEW s \in Sinks, Steady(s)', NEW i \in 1..Len(loads'[s])
             PROVE  /\ loads'[s][i].lsn \in Lsns
                    /\ loads'[s][i] \in ToSet(Now.emits[loads'[s][i].lsn][s])
  BY ConfigStays DEF LoadsAreNow
<1>0. /\ loads[s] \in Seq(Emitted(s)) /\ loads'[s] \in Seq(Emitted(s)) /\ Steady(s)
      /\ Len(loads[s]) \in Nat
      /\ \A j \in 1..Len(loads[s]) : loads[s][j] \in ToSet(Now.emits[loads[s][j].lsn][s])
  BY LoadsStay, ConfigStays, LenProperties DEF Inv, Shaped, Loads, LoadsAreNow
<1>00. loads'[s][i].lsn \in Lsns
  BY <1>0, ElementOfSeq, EmittedEvents
<1>1. CASE loads'[s] = loads[s]  BY <1>0, <1>00, <1>1
<1>2. CASE Collect
  <2> DEFINE old == loads[s]
             new == Now.emits[Handled + 1][s]
  <2>1. /\ Handled + 1 \in Lsns /\ config \in Names
        /\ loads'[s] = old \o new /\ old \in Seq(Emitted(s)) /\ new \in Seq(Emitted(s))
    BY <1>2, CollectAdds
  <2>2. \A e \in ToSet(new) : e.lsn = Handled + 1
    BY <2>1, DeliveryAssumption DEF DeliveryAssumption, IsConfig, Now
  <2>3. loads'[s][i] \in ToSet(old) \/ loads'[s][i] \in ToSet(new)
    <3> HIDE DEF old, new
    <3>1. loads'[s][i] \in ToSet(loads'[s])  BY <1>0, InSequence
    <3> QED BY <2>1, <3>1, InBoth
  <2>4. CASE loads'[s][i] \in ToSet(old)
    <3>1. PICK j \in 1..Len(loads[s]) : loads'[s][i] = loads[s][j]  BY <1>0, <2>4, InSequence
    <3> QED BY <1>0, <1>00, <3>1
  <2>5. CASE loads'[s][i] \in ToSet(new)  BY <1>00, <2>2, <2>5
  <2> QED BY <2>3, <2>4, <2>5
<1>3. CASE ChunkSent /\ s = Sink
  <2>1. PICK n \in 1..Len(loads[Sink]) :
          /\ Len(loads'[Sink]) = Len(loads[Sink]) - n
          /\ \A j \in 1..Len(loads'[Sink]) : loads'[Sink][j] = loads[Sink][n + j]
    BY <1>3, ChunkLeaves
  <2>2. n + i \in 1..Len(loads[s]) /\ loads'[s][i] = loads[s][n + i]  BY <1>0, <1>3, <2>1
  <2> QED BY <1>0, <1>00, <2>2
<1>4. CASE ChunkSent /\ s # Sink
  <2>1. loads'[s] = loads[s]  BY <1>4, ChunkLeaves
  <2> QED BY <1>1, <2>1
<1>5. CASE PassEnds
  <2>1. loads'[s] = <<>>  BY <1>5 DEF PassEnds, PassOver, NoLoads
  <2>2. 1..Len(loads'[s]) = {}  BY <2>1
  <2> QED BY <2>2
<1>6. CASE WindowStays \/ Quarantine \/ WindowSent \/ Refresh
  BY <1>1, <1>6 DEF WindowStays, Quarantine, WindowSent, Refresh, pass
<1> QED BY <1>2, <1>3, <1>4, <1>5, <1>6, StepKinds DEF Kinds7

LEMMA LoadsAreLoneStay ==
  ASSUME Inv, [Next]_vars
  PROVE  LoadsAreLone'
<1> SUFFICES ASSUME NEW s \in Sinks, Lone(s)
             PROVE  /\ \A i, j \in 1..Len(loads'[s]) : i < j => loads'[s][i].lsn < loads'[s][j].lsn
                    /\ \A k \in 1..Len(window') :
                         loads'[s] # <<>> /\ loads'[s][1].lsn <= window'[k].lsn =>
                           ToSet(Configs[window'[k].by].emits[window'[k].lsn][s]) \subseteq ToSet(loads'[s])
  BY DEF LoadsAreLone, Lone
<1>0. /\ \A i, j \in 1..Len(loads[s]) : i < j => loads[s][i].lsn < loads[s][j].lsn
      /\ \A k \in 1..Len(window) :
           loads[s] # <<>> /\ loads[s][1].lsn <= window[k].lsn =>
             ToSet(Configs[window[k].by].emits[window[k].lsn][s]) \subseteq ToSet(loads[s])
      /\ loads[s] \in Seq(Emitted(s)) /\ Len(loads[s]) \in Nat
  BY LenProperties DEF Inv, LoadsAreLone, Shaped, Loads
<1>1. CASE UNCHANGED <<window, loads>>  BY <1>0, <1>1
<1>2. CASE loads'[s] = <<>>
  <2>1. 1..Len(loads'[s]) = {}  BY <1>2
  <2> QED BY <1>2, <2>1
<1>3. CASE Collect
  <2> DEFINE old == loads[s]
             new == Now.emits[Handled + 1][s]
  <2>1. /\ Handled + 1 \in Lsns /\ config \in Names /\ Handled = Base + Len(window)
        /\ Len(window') = Len(window) + 1
        /\ \A k \in 1..Len(window) : window'[k] = window[k]
        /\ window'[Len(window) + 1] = [lsn |-> Handled + 1, by |-> config]
        /\ loads'[s] = old \o new /\ old \in Seq(Emitted(s)) /\ new \in Seq(Emitted(s))
    BY <1>3, CollectAdds
  <2>2. /\ Base \in Nat /\ Len(window) \in Nat
        /\ \A k \in 1..Len(window) : window[k].lsn = Base + k
        /\ \A i \in 1..Len(old) : old[i].lsn \in (Base + 1)..(Base + Len(window))
    BY HandledIsEnd DEF Inv, Shaped, Windows, LoadsInOrder
  <2>3. Len(new) \in Nat /\ Len(new) <= 1  BY <2>1, LenProperties DEF Lone, Now
  <2>4. \A i \in 1..Len(new) : new[i].lsn = Handled + 1
    <3>1. /\ new \in Seq(ToSet(new))
          /\ \A e \in ToSet(new) : e.lsn = Handled + 1
      BY <2>1, DeliveryAssumption DEF DeliveryAssumption, IsConfig, Now
    <3> HIDE DEF new
    <3> QED BY <3>1, LenProperties
  <2>5. new = Configs[config].emits[Handled + 1][s]  BY DEF Now
  <2>6. /\ \A i, j \in 1..Len(old) : i < j => old[i].lsn < old[j].lsn
        /\ \A k \in 1..Len(window) :
             old # <<>> /\ old[1].lsn <= window[k].lsn =>
               ToSet(Configs[window[k].by].emits[window[k].lsn][s]) \subseteq ToSet(old)
        /\ Len(old) \in Nat
    BY <1>0
  <2> HIDE DEF old, new
  <2>7. /\ Len(loads'[s]) = Len(old) + Len(new)
        /\ \A i \in 1..(Len(old) + Len(new)) :
             loads'[s][i] = IF i <= Len(old) THEN old[i] ELSE new[i - Len(old)]
        /\ ToSet(loads'[s]) = ToSet(old) \cup ToSet(new)
    BY <2>1, ConcatProperties, InBoth
  <2>8. ASSUME NEW i \in 1..Len(loads'[s]), NEW j \in 1..Len(loads'[s]), i < j
        PROVE  loads'[s][i].lsn < loads'[s][j].lsn
    <3>1. i \in 1..Len(old) /\ loads'[s][i] = old[i]  BY <2>3, <2>6, <2>7, <2>8
    <3>2. CASE j <= Len(old)
      <4>1. j \in 1..Len(old) /\ loads'[s][j] = old[j]  BY <2>6, <2>7, <3>2
      <4> QED BY <2>6, <2>8, <3>1, <4>1
    <3>3. CASE ~(j <= Len(old))
      <4>1. j - Len(old) \in 1..Len(new) /\ loads'[s][j] = new[j - Len(old)]
        BY <2>3, <2>6, <2>7, <3>3
      <4>2. loads'[s][j].lsn = Base + Len(window) + 1  BY <2>1, <2>4, <4>1
      <4>3. loads'[s][i].lsn \in (Base + 1)..(Base + Len(window))  BY <2>2, <3>1
      <4> QED BY <2>2, <4>2, <4>3
    <3> QED BY <3>2, <3>3
  <2>9. ASSUME NEW k \in 1..Len(window'), loads'[s] # <<>>, loads'[s][1].lsn <= window'[k].lsn
        PROVE  ToSet(Configs[window'[k].by].emits[window'[k].lsn][s]) \subseteq ToSet(loads'[s])
    <3>1. CASE k = Len(window) + 1
      <4>1. Configs[window'[k].by].emits[window'[k].lsn][s] = new  BY <2>1, <2>5, <3>1
      <4> QED BY <2>7, <4>1
    <3>2. CASE k \in 1..Len(window)
      <4>1. window'[k] = window[k]  BY <2>1, <3>2
      <4>2. CASE old # <<>>
        <5>1. Len(old) > 0  BY <2>1, <4>2, InSequence
        <5>2. loads'[s][1] = old[1]  BY <2>3, <2>6, <2>7, <5>1
        <5> QED BY <2>6, <2>7, <2>9, <3>2, <4>1, <4>2, <5>2
      <4>3. CASE old = <<>>
        <5>1. Len(old) = 0  BY <4>3
        <5>2. Len(new) > 0
          <6>1. Len(loads'[s]) > 0
            <7>1. loads'[s] \in Seq(Emitted(s))  BY <2>1, ConcatProperties
            <7> QED BY <2>9, <7>1, InSequence
          <6> QED BY <2>7, <5>1, <6>1, <2>3
        <5>3. loads'[s][1].lsn = Handled + 1  BY <2>3, <2>4, <2>7, <5>1, <5>2
        <5>4. window'[k].lsn = Base + k  BY <2>2, <3>2, <4>1
        <5> QED BY <2>1, <2>2, <2>9, <3>2, <5>3, <5>4
      <4> QED BY <4>2, <4>3
    <3> QED BY <2>1, <2>2, <3>1, <3>2
  <2> QED BY <2>8, <2>9
<1>4. CASE ChunkSent /\ s = Sink
  <2>0. PICK n \in 1..Len(loads[Sink]) :
          /\ loads'[Sink] \in Seq(Emitted(Sink)) /\ Len(loads'[Sink]) = Len(loads[Sink]) - n
          /\ \A i \in 1..Len(loads'[Sink]) : loads'[Sink][i] = loads[Sink][n + i]
          /\ \A e : e \in ToSet(loads'[Sink]) <=>
                     \E i \in (n + 1)..Len(loads[Sink]) : e = loads[Sink][i]
          /\ window' = window
    BY <1>4, ChunkLeaves
  <2>1. /\ n \in 1..Len(loads[s])
        /\ loads'[s] \in Seq(Emitted(s)) /\ Len(loads'[s]) = Len(loads[s]) - n
        /\ \A i \in 1..Len(loads'[s]) : loads'[s][i] = loads[s][n + i]
        /\ \A e : e \in ToSet(loads'[s]) <=> \E i \in (n + 1)..Len(loads[s]) : e = loads[s][i]
        /\ window' = window
    BY <1>4, <2>0, Zenon
  <2>2. \A i \in 1..Len(loads'[s]) : n + i \in 1..Len(loads[s])  BY <1>0, <2>1
  <2>3. ASSUME NEW i \in 1..Len(loads'[s]), NEW j \in 1..Len(loads'[s]), i < j
        PROVE  loads'[s][i].lsn < loads'[s][j].lsn
    <3>1. n + i < n + j  BY <1>0, <2>1, <2>3
    <3> QED BY <1>0, <2>1, <2>2, <3>1
  <2>4. ASSUME NEW k \in 1..Len(window), loads'[s] # <<>>, loads'[s][1].lsn <= window[k].lsn,
               NEW e \in ToSet(Configs[window[k].by].emits[window[k].lsn][s])
        PROVE  e \in ToSet(loads'[s])
    <3>1. Len(loads'[s]) > 0 /\ Len(loads'[s]) \in Nat  BY <2>1, <2>4, InSequence
    <3>2. /\ n + 1 \in 1..Len(loads[s]) /\ 1 \in 1..Len(loads[s])
          /\ loads'[s][1] = loads[s][n + 1] /\ loads[s] # <<>>
      BY <1>0, <2>1, <3>1
    <3>3. window[k].lsn \in Lsns /\ window[k].by \in Names
      <4>1. window[k] \in [lsn : Lsns, by : Names]
        BY ElementOfSeq DEF Inv, Shaped, Windows
      <4> QED BY <4>1
    <3>4. e.lsn = window[k].lsn
      BY <2>4, <3>3, DeliveryAssumption DEF DeliveryAssumption, IsConfig
    <3>5. \A i \in 1..Len(loads[s]) : loads[s][i].lsn \in Nat
      BY <1>0, ElementOfSeq, EmittedEvents
    <3>6. loads[s][1].lsn <= loads[s][n + 1].lsn
      BY <3>2, <1>4 DEF Inv, LoadsInOrder
    <3>7. loads[s][1].lsn <= window[k].lsn
      <4>1. window[k].lsn \in Nat  BY <3>3 DEF Lsns
      <4> QED BY <2>4, <3>2, <3>5, <3>6, <4>1
    <3>8. e \in ToSet(loads[s])  BY <1>0, <2>4, <3>2, <3>7
    <3>9. PICK j \in 1..Len(loads[s]) : e = loads[s][j]  BY <1>0, <3>8, InSequence
    <3>10. ~(j < n + 1)
      <4>1. SUFFICES ASSUME j < n + 1 PROVE FALSE  OBVIOUS
      <4>2. loads[s][j].lsn < loads[s][n + 1].lsn  BY <1>0, <3>2, <4>1
      <4> QED BY <2>4, <3>2, <3>4, <3>5, <3>9, <4>2
    <3>11. j \in (n + 1)..Len(loads[s])  BY <1>0, <3>10
    <3> QED BY <2>1, <3>9, <3>11
  <2> QED BY <2>1, <2>3, <2>4
<1>5. CASE ChunkSent /\ s # Sink
  <2>1. loads'[s] = loads[s] /\ window' = window  BY <1>5, ChunkLeaves
  <2> QED BY <1>0, <2>1
<1>6. CASE PassEnds
  BY <1>2, <1>6 DEF PassEnds, PassOver, NoLoads
<1>7. CASE WindowSent
  BY <1>2, <1>7 DEF WindowSent, Todo
<1>8. CASE WindowStays \/ Quarantine \/ Refresh
  BY <1>1, <1>8 DEF WindowStays, Quarantine, Refresh, pass
<1> QED BY <1>3, <1>4, <1>5, <1>6, <1>7, <1>8, StepKinds DEF Kinds7

---------------------------------------------------------------------------
(* Where a sink stands.                                                    *)

(* How a pass comes to a message or to a file.                             *)
LEMMA InSinkSteps ==
  ASSUME Inv, [Next]_vars, pc' \in {"event"} \cup InFiles
  PROVE  /\ pc \in InSink /\ UNCHANGED <<loads, policy>> /\ Sink' = Sink /\ Chunk' = Chunk
         /\ \/ UNCHANGED <<pc, left, outside>>
            \/ /\ Kind[Sink] = "kafka" /\ pc' = "event" /\ left' = Chunk.events /\ UNCHANGED outside
            \/ Kind[Sink] = "parquet" /\ pc' \in {"put", "stat"} /\ UNCHANGED outside
            \/ /\ SendEvent /\ Tail(left) # <<>> /\ left' = Tail(left) /\ pc' = pc
            \/ pc = "stat" /\ pc' \in {"put", "write"} /\ UNCHANGED outside
            \/ WriteTemp
<1> DEFINE How ==
            \/ UNCHANGED <<pc, left, outside>>
            \/ /\ Kind[Sink] = "kafka" /\ pc' = "event" /\ left' = Chunk.events /\ UNCHANGED outside
            \/ Kind[Sink] = "parquet" /\ pc' \in {"put", "stat"} /\ UNCHANGED outside
            \/ /\ SendEvent /\ Tail(left) # <<>> /\ left' = Tail(left) /\ pc' = pc
            \/ pc = "stat" /\ pc' \in {"put", "write"} /\ UNCHANGED outside
            \/ WriteTemp
<1> SUFFICES pc \in InSink /\ UNCHANGED <<loads, policy>> /\ How
  BY DEF Sink, Chunk, Todo
<1>0. pc' \in {"event", "stat", "write", "rename", "put"}  BY DEF InFiles
<1> USE <1>0 DEF InSink
<1>1. CASE OpenPass \/ Collect \/ Quarantine \/ SendWindow
  BY <1>1 DEF OpenPass, Collect, Quarantine, SendWindow
<1>2. CASE PlanSink \/ RejectChunk
  BY <1>2 DEF PlanSink, RejectChunk, FailPass, PassOver
<1>3. CASE TakeChunk
  <2>1. pc = "chunk" /\ UNCHANGED outside  BY <1>3 DEF TakeChunk
  <2>2. ~ChunkDone  BY DEF ChunkDone
  <2> QED BY <1>3, <2>1, <2>2, ChunkIsTaken
<1>4. CASE SendEvent
  <2>1. ~ChunkDone  BY DEF ChunkDone
  <2>2. pc = "event" /\ Tail(left) # <<>> /\ left' = Tail(left) /\ UNCHANGED <<pc, loads, policy>>
    BY <1>4, <2>1 DEF SendEvent
  <2> QED BY <1>4, <2>2
<1>5. CASE Stat
  BY <1>5 DEF Stat, ChunkDone
<1>6. CASE WriteTemp
  BY <1>6 DEF WriteTemp
<1>7. CASE Rename \/ Put
  BY <1>7 DEF Rename, Put, ChunkDone
<1>8. CASE WindowSent \/ EndPass \/ Store
  BY <1>8 DEF WindowSent, EndPass, Store, PassOver
<1>9. CASE AppendRecord \/ Refresh
  <2>1. UNCHANGED <<pc, left, loads, policy>> /\ UNCHANGED outside
    BY <1>9 DEF AppendRecord, Refresh, pass
  <2> QED BY <2>1
<1>10. CASE Crash \/ SendEventFails \/ StorageFails \/ StoreFails
  BY <1>10 DEF Crash, SendEventFails, StorageFails, StoreFails, FailPass, PassOver
<1>11. CASE UNCHANGED vars
  <2>1. UNCHANGED <<pc, left, loads, policy>> /\ UNCHANGED outside  BY <1>11 DEF vars, pass
  <2> QED BY <2>1
<1> QED
  BY <1>1, <1>2, <1>3, <1>4, <1>5, <1>6, <1>7, <1>8, <1>9, <1>10, <1>11 DEF Next, Replay

LEMMA AtEventStays ==
  ASSUME Inv, [Next]_vars
  PROVE  AtEvent'
<1> SUFFICES ASSUME pc' = "event"
             PROVE  /\ Kind[Sink] = "kafka"
                    /\ left' \in Seq(Emitted(Sink)) /\ left' # <<>>
                    /\ ToSet(left') \subseteq ToSet(Chunk.events)
                    /\ ToSet(Chunk.events) \subseteq ToSet(topic'[Sink]) \cup ToSet(left')
                    /\ \A i, j \in 1..Len(left') : i < j => left'[i].lsn <= left'[j].lsn
  <2>1. pc' = "event" => Sink' = Sink /\ Chunk' = Chunk  BY InSinkSteps
  <2> QED BY <2>1 DEF AtEvent
<1>0. /\ pc \in InSink /\ Sink \in Sinks
  BY InSinkSteps, SinkIsFirst DEF Inv, Shaped, Loads
<1>1. CASE UNCHANGED <<pc, left, outside>>
  BY <1>1 DEF Inv, Positions, AtEvent, outside
<1>2. CASE Kind[Sink] = "kafka" /\ left' = Chunk.events
  <2>1. PICK n \in 1..Len(loads[Sink]) :
          /\ loads[Sink] \in Seq(Emitted(Sink))
          /\ Chunk.events \in Seq(Emitted(Sink)) /\ Len(Chunk.events) = n
          /\ \A i \in 1..n : Chunk.events[i] = loads[Sink][i]
    BY <1>0, ChunkIsBeginning DEF Inv, Shaped, Loads
  <2>2. Len(loads[Sink]) \in Nat  BY <2>1, LenProperties
  <2>3. Chunk.events # <<>>  BY <2>1, <2>2, InSequence
  <2>4. \A i, j \in 1..n : i < j => loads[Sink][i].lsn <= loads[Sink][j].lsn
    BY <1>0, <2>2 DEF Inv, LoadsInOrder
  <2> QED BY <1>2, <2>1, <2>3, <2>4
<1>3. CASE SendEvent /\ Tail(left) # <<>> /\ left' = Tail(left) /\ pc' = pc
  <2>1. /\ Kind[Sink] = "kafka" /\ left \in Seq(Emitted(Sink)) /\ left # <<>>
        /\ ToSet(left) \subseteq ToSet(Chunk.events)
        /\ ToSet(Chunk.events) \subseteq ToSet(topic[Sink]) \cup ToSet(left)
        /\ \A i, j \in 1..Len(left) : i < j => left[i].lsn <= left[j].lsn
    BY <1>3 DEF Inv, Positions, AtEvent
  <2>2. /\ Head(left) \in Emitted(Sink) /\ Tail(left) \in Seq(Emitted(Sink))
        /\ Len(Tail(left)) = Len(left) - 1
        /\ \A i \in 1..Len(Tail(left)) : Tail(left)[i] = left[i + 1]
        /\ ToSet(left) = {Head(left)} \cup ToSet(Tail(left))
    BY <2>1, HeadAndTail
  <2>3. ToSet(topic'[Sink]) = ToSet(topic[Sink]) \cup {Head(left)}
    BY <1>0, <1>3, <2>2, PublishAdds DEF SendEvent, Inv, Shaped
  <2>4. Len(left) \in Nat  BY <2>1, LenProperties
  <2>5. ASSUME NEW i \in 1..Len(left'), NEW j \in 1..Len(left'), i < j
        PROVE  left'[i].lsn <= left'[j].lsn
    <3>1. i + 1 \in 1..Len(left) /\ j + 1 \in 1..Len(left) /\ i + 1 < j + 1
      BY <1>3, <2>2, <2>4, <2>5
    <3> QED BY <1>3, <2>1, <2>2, <3>1
  <2> QED BY <1>3, <2>1, <2>2, <2>3, <2>5
<1> QED BY <1>1, <1>2, <1>3, InSinkSteps DEF WriteTemp

LEMMA AtFileStays ==
  ASSUME Inv, [Next]_vars
  PROVE  AtFile'
<1> SUFFICES ASSUME pc' \in InFiles
             PROVE  /\ Kind[Sink] = "parquet"
                    /\ pc' = "rename" => \A f \in temps'[Sink] : f.name = FileName(Chunk) => f = File(Chunk)
  <2>1. pc' \in InFiles => Sink' = Sink /\ Chunk' = Chunk  BY InSinkSteps
  <2>2. pc' = "rename" => pc' \in InFiles  BY DEF InFiles
  <2> QED BY <2>1, <2>2 DEF AtFile, FileName, File
<1>0. Sink \in Sinks /\ DOMAIN temps = Sinks
  BY InSinkSteps, SinkIsFirst DEF Inv, Shaped, Loads, Outside
<1>1. CASE UNCHANGED <<pc, left, outside>>
  BY <1>1 DEF Inv, Positions, AtFile, outside
<1>2. CASE Kind[Sink] = "parquet" /\ pc' \in {"put", "stat"}
  BY <1>2
<1>3. CASE pc = "stat" /\ pc' \in {"put", "write"}
  BY <1>3 DEF Inv, Positions, AtFile, InFiles
<1>4. CASE WriteTemp
  <2>1. Kind[Sink] = "parquet"  BY <1>4 DEF WriteTemp, Inv, Positions, AtFile, InFiles
  <2>2. temps'[Sink] = Without(temps[Sink], Chunk) \cup {File(Chunk)}  BY <1>0, <1>4 DEF WriteTemp
  <2> QED BY <2>1, <2>2 DEF Without
<1> QED BY <1>1, <1>2, <1>3, <1>4, InSinkSteps DEF InFiles, SendEvent

---------------------------------------------------------------------------
(* What has reached the sinks.                                             *)

(* What a chunk of a sink that is told brings is held.                     *)
LEMMA ChunkIsHeld ==
  ASSUME Inv, [Next]_vars, ChunkSent, NEW s \in Sinks, s = Sink, Told(s)
  PROVE  ToSet(Chunk.events) \subseteq Held(s)'
<1>1. Todo # {} /\ Sink \in Sinks  BY SinkIsFirst DEF ChunkSent, Inv, Shaped, Loads
<1>2. CASE Kind[Sink] = "kafka"
  BY <1>2 DEF ChunkSent, Reached, Held
<1>3. CASE Kind[Sink] = "parquet" /\ Lone(Sink) /\ Steady(Sink)
  <2>1. PICK f \in files'[Sink] : f.name = FileName(Chunk)  BY <1>3 DEF ChunkSent, Reached
  <2>2. CASE f \in files[Sink]
    <3>1. PICK n \in 1..Len(loads[Sink]) :
            /\ loads[Sink] \in Seq(Emitted(Sink))
            /\ Chunk.first = loads[Sink][1].lsn /\ Chunk.last = loads[Sink][n].lsn
            /\ \A e : e \in ToSet(Chunk.events) <=> \E i \in 1..n : e = loads[Sink][i]
      BY <1>1, ChunkIsBeginning DEF Inv, Shaped
    <3>2. f.name[1] = loads[Sink][1].lsn /\ f.name[2] = loads[Sink][n].lsn
      BY <2>1, <3>1 DEF FileName
    <3>3. Len(loads[Sink]) \in Nat /\ \A i \in 1..Len(loads[Sink]) : loads[Sink][i].lsn \in Nat
      BY <1>1, <3>1, LenProperties, EmittedEvents
    <3>4. \A i, j \in 1..Len(loads[Sink]) : i < j => loads[Sink][i].lsn <= loads[Sink][j].lsn
      BY <1>1 DEF Inv, LoadsInOrder
    <3>5. \A i \in 1..Len(loads[Sink]) : loads[Sink][i] \in ToSet(Now.emits[loads[Sink][i].lsn][Sink])
      BY <1>1, <1>3 DEF Inv, LoadsAreNow
    <3>6. ASSUME NEW i \in 1..n PROVE loads[Sink][i] \in ToSet(f.events)
      <4>1. i \in 1..Len(loads[Sink]) /\ 1 \in 1..Len(loads[Sink]) /\ (1 < i \/ 1 = i) /\ (i < n \/ i = n)
        BY <3>3
      <4>2. loads[Sink][i].lsn \in f.name[1]..f.name[2]  BY <3>2, <3>3, <3>4, <4>1
      <4>3. ToSet(Now.emits[loads[Sink][i].lsn][Sink]) \subseteq ToSet(f.events)
        BY <1>1, <1>3, <2>2, <4>2 DEF Inv, FilesTell
      <4> QED BY <3>5, <4>1, <4>3
    <3>7. ToSet(Chunk.events) \subseteq ToSet(f.events)  BY <3>1, <3>6
    <3>8. ToSet(f.events) \subseteq EventsAt(files'[Sink])  BY <2>1 DEF EventsAt
    <3> QED BY <1>3, <3>7, <3>8 DEF Held
  <2>3. CASE f \notin files[Sink]
    <3>1. FilesGrow /\ files' # files  BY <2>1, <2>3, StepKinds
    <3>2. f = File(Chunk)  BY <1>1, <2>1, <2>3, <3>1, FileOfChunk
    <3>3. ToSet(Chunk.events) \subseteq EventsAt(files'[Sink])
      BY <2>1, <3>2 DEF EventsAt, File
    <3> QED BY <1>3, <3>3 DEF Held
  <2> QED BY <2>2, <2>3
<1> QED BY <1>2, <1>3 DEF Told, Steady

(* What a sink is told after a step, it was told before.                   *)
LEMMA ToldBefore ==
  ASSUME Inv, [Next]_vars, NEW s \in Sinks, Told(s)'
  PROVE  Told(s)
BY ConfigStays DEF Told, Lone

LEMMA WindowIsOnItsWay ==
  ASSUME Inv, [Next]_vars
  PROVE  WindowOnItsWay'
<1> DEFINE Row(k, s) == ToSet(Configs[window[k].by].emits[window[k].lsn][s])
<1> SUFFICES ASSUME NEW k \in 1..Len(window'), NEW s \in Sinks, Told(s)'
             PROVE  ToSet(Configs[window'[k].by].emits[window'[k].lsn][s]) \subseteq
                      Held(s)' \cup ToSet(loads'[s])
  BY DEF WindowOnItsWay
<1>0. /\ Told(s) /\ Held(s) \subseteq Held(s)'
      /\ \A i \in 1..Len(window) : Row(i, s) \subseteq Held(s) \cup ToSet(loads[s])
  BY ToldBefore, HeldStays DEF Inv, WindowOnItsWay
<1>1. CASE UNCHANGED <<window, loads>>  BY <1>0, <1>1
<1>2. CASE window' = <<>>
  <2>1. 1..Len(window') = {}  BY <1>2
  <2> QED BY <2>1
<1>3. CASE Collect
  <2> DEFINE old == loads[s]
             new == Now.emits[Handled + 1][s]
  <2>1. /\ Len(window') = Len(window) + 1 /\ Len(window) \in Nat
        /\ \A i \in 1..Len(window) : window'[i] = window[i]
        /\ window'[Len(window) + 1] = [lsn |-> Handled + 1, by |-> config]
        /\ loads'[s] = old \o new /\ old \in Seq(Emitted(s)) /\ new \in Seq(Emitted(s))
    BY <1>3, CollectAdds, HandledIsEnd DEF Inv
  <2>2. ToSet(loads'[s]) = ToSet(old) \cup ToSet(new)
    <3> HIDE DEF old, new
    <3> QED BY <2>1, InBoth
  <2>3. CASE k \in 1..Len(window)  BY <1>0, <2>1, <2>2, <2>3
  <2>4. CASE k = Len(window) + 1  BY <2>1, <2>2, <2>4 DEF Now
  <2> QED BY <2>1, <2>3, <2>4
<1>4. CASE ChunkSent
  <2>1. window' = window  BY <1>4 DEF ChunkSent, ChunkDone
  <2>2. CASE s # Sink
    <3>1. loads'[s] = loads[s]  BY <1>4, <2>2, ChunkLeaves
    <3> QED BY <1>0, <2>1, <3>1
  <2>3. CASE s = Sink
    <3>1. ToSet(loads[Sink]) = ToSet(Chunk.events) \cup ToSet(loads'[Sink])  BY <1>4, ChunkLeaves
    <3>2. ToSet(Chunk.events) \subseteq Held(s)'  BY <1>0, <1>4, <2>3, ChunkIsHeld
    <3> QED BY <1>0, <2>1, <2>3, <3>1, <3>2
  <2> QED BY <2>2, <2>3
<1>5. CASE PassEnds \/ WindowSent
  BY <1>2, <1>5 DEF PassEnds, PassOver, WindowSent
<1>6. CASE WindowStays \/ Quarantine \/ Refresh
  BY <1>1, <1>6 DEF WindowStays, Quarantine, Refresh, pass
<1> QED BY <1>3, <1>4, <1>5, <1>6, StepKinds DEF Kinds7

(* What is through stays through, while its emitter stays on record.       *)
LEMMA ThroughStays ==
  ASSUME Inv, [Next]_vars, NEW l \in Lsns, Through(l), settled'[l] = settled[l]
  PROVE  Through(l)'
<1>1. settled'[l] # Unsent  BY DEF Through
<1>2. ASSUME NEW s \in Sinks, Told(s)'
      PROVE  ToSet(Events(settled'[l], l, s)) \subseteq Held(s)'
  BY <1>2, ToldBefore, HeldStays DEF Through
<1>3. \A s : Events(settled[l], l, s)' = Events(settled'[l], l, s)  BY DEF Events
<1> QED BY <1>1, <1>2, <1>3 DEF Through

LEMMA BaseStaysThrough ==
  ASSUME Inv, [Next]_vars
  PROVE  BaseThrough'
<1> SUFFICES ASSUME NEW l \in 1..Base' PROVE Through(l)'
  BY DEF BaseThrough
<1>0. /\ Base \in Nat /\ Len(window) \in Nat /\ Handled = Base + Len(window) /\ checkpoint \in Nat
      /\ (window # <<>> => Last(window).lsn = Base + Len(window)) /\ checkpoint <= Base
      /\ (window = <<>> <=> Len(window) = 0)
      /\ \A k \in 1..Len(window) : window[k].lsn = Base + k /\ window[k].by \in Names
      /\ DOMAIN window = 1..Len(window)
  <2>1. /\ DOMAIN window = 1..Len(window) /\ \A k \in 1..Len(window) : window[k].lsn = Base + k
        /\ \A k \in 1..Len(window) : window[k] \in [lsn : Lsns, by : Names]
    BY LenProperties DEF Inv, Shaped, Windows
  <2>2. \A k \in 1..Len(window) : window[k].by \in Names  BY <2>1
  <2> QED BY <2>1, <2>2, HandledIsEnd DEF Inv
<1>00. l \in Lsns
  <2>1. Base' \in Nat /\ Base' <= available' /\ available' \in 0..LastLsn /\ LastLsn \in Nat
    BY ShapedStays, DeliveryAssumption DEF DeliveryAssumption, Shaped, Numbers, Base
  <2> QED BY <2>1 DEF Lsns
<1>01. \A m \in 1..Base : Through(m)  BY DEF Inv, BaseThrough
<1>1. CASE Base' \in {checkpoint, Base} /\ settled' = settled
  <2>1. l \in 1..Base  BY <1>0, <1>1
  <2> QED BY <1>00, <1>01, <1>1, <2>1, ThroughStays
<1>2. CASE Quarantine
  <2>1. /\ Base' = Handled + 1 /\ Handled = Base
        /\ settled' = [settled EXCEPT ![Handled + 1] = Quarantined]
    BY <1>0, <1>2 DEF Quarantine, Base
  <2>2. DOMAIN settled = Lsns  BY DEF Inv, Shaped, Outside
  <2>3. CASE l \in 1..Base
    <3>1. settled'[l] = settled[l]  BY <1>0, <1>00, <2>1, <2>2, <2>3
    <3> QED BY <1>00, <1>01, <2>3, <3>1, ThroughStays
  <2>4. CASE l = Base + 1
    <3>1. settled'[l] = Quarantined  BY <1>00, <2>1, <2>2, <2>4
    <3>2. Quarantined \notin Names  BY DeliveryAssumption DEF DeliveryAssumption
    <3>3. \A s : Events(settled[l], l, s)' = <<>>  BY <3>1, <3>2 DEF Events
    <3>4. settled'[l] # Unsent  BY <3>1 DEF Quarantined, Unsent
    <3>5. ToSet(<<>>) = {}  BY DEF ToSet
    <3> QED BY <3>3, <3>4, <3>5 DEF Through
  <2> QED BY <1>0, <2>1, <2>3, <2>4
<1>3. CASE WindowSent
  <2>1. window # <<>>  BY <1>3 DEF WindowSent, Inv, Shaped, Windows
  <2>2. Base' = Base + Len(window)
    <3>1. pending' = Base + Len(window) /\ Len(window) > 0  BY <1>0, <1>3, <2>1 DEF WindowSent
    <3> QED BY <1>0, <3>1 DEF Base
  <2>3. settled'[l] = IF \E i \in 1..Len(window) : window[i].lsn = l
                        THEN window[CHOOSE i \in 1..Len(window) : window[i].lsn = l].by
                        ELSE settled[l]
    BY <1>0, <1>00, <1>3 DEF WindowSent
  <2>4. CASE l \in 1..Base
    <3>1. ~\E i \in 1..Len(window) : window[i].lsn = l  BY <1>0, <2>4
    <3>2. settled'[l] = settled[l]  BY <2>3, <3>1
    <3> QED BY <1>00, <1>01, <2>4, <3>2, ThroughStays
  <2>5. CASE l \notin 1..Base
    <3> DEFINE k == l - Base
    <3>1. k \in 1..Len(window) /\ l = Base + k  BY <1>0, <2>2, <2>5
    <3> HIDE DEF k
    <3>2. window[k].lsn = l /\ \A i \in 1..Len(window) : window[i].lsn = l => i = k
      BY <1>0, <3>1
    <3>3. settled'[l] = window[k].by  BY <2>3, <3>1, <3>2
    <3>4. window[k].by \in Names  BY <1>0, <3>1
    <3>5. settled'[l] # Unsent
      BY <3>3, <3>4, DeliveryAssumption DEF DeliveryAssumption
    <3>6. ASSUME NEW s \in Sinks, Told(s)'
          PROVE  ToSet(Events(settled[l], l, s)') \subseteq Held(s)'
      <4>1. Events(settled[l], l, s)' = Configs[window[k].by].emits[l][s]
        BY <3>3, <3>4 DEF Events
      <4>2. ToSet(Configs[window[k].by].emits[l][s]) \subseteq Held(s) \cup ToSet(loads[s])
        <5>1. Told(s)  BY <3>6, ToldBefore
        <5> QED BY <3>1, <3>2, <5>1 DEF Inv, WindowOnItsWay
      <4>3. loads[s] = <<>>  BY <1>3 DEF WindowSent, Todo
      <4>4. ToSet(loads[s]) = {}  BY <4>3 DEF ToSet
      <4> QED BY <4>1, <4>2, <4>4, HeldStays
    <3> QED BY <3>5, <3>6 DEF Through
  <2> QED BY <2>4, <2>5
<1>4. CASE PassEnds
  <2>1. Base' \in {checkpoint, Base} /\ settled' = settled  BY <1>4 DEF PassEnds, PassOver, Base
  <2> QED BY <1>1, <2>1
<1>5. CASE WindowStays \/ Collect \/ ChunkSent \/ Refresh
  <2>1. Base' = Base /\ settled' = settled
    BY <1>5 DEF WindowStays, Collect, ChunkSent, Refresh, pass, Base
  <2> QED BY <1>1, <2>1
<1> QED BY <1>2, <1>3, <1>4, <1>5, StepKinds DEF Kinds7

LEMMA FilesStillTell ==
  ASSUME Inv, [Next]_vars
  PROVE  FilesTell'
<1> DEFINE Tells(f, s) ==
      /\ \A i \in 1..Len(f.events) :
            /\ f.events[i].lsn \in f.name[1]..f.name[2]
            /\ f.events[i] \in ToSet(Now.emits[f.events[i].lsn][s])
      /\ \A l \in f.name[1]..f.name[2] : l \in Lsns /\ ToSet(Now.emits[l][s]) \subseteq ToSet(f.events)
      /\ \A i, j \in 1..Len(f.events) : i < j => f.events[i].lsn < f.events[j].lsn
<1> SUFFICES ASSUME NEW s \in Sinks, Lone(s), Steady(s)', NEW f \in files'[s]
             PROVE  Tells(f, s)
  BY ConfigStays DEF FilesTell, Lone
<1>0. Steady(s)  BY ConfigStays
<1>1. CASE f \in files[s]  BY <1>0, <1>1 DEF Inv, FilesTell
<1>2. CASE f \notin files[s]
  <2>1. FilesGrow /\ files' # files  BY <1>2, StepKinds
  <2>2. /\ pc \in InFiles /\ s = Sink /\ f = File(Chunk)
    BY <1>2, <2>1, FileOfChunk
  <2>3. PICK n \in 1..Len(loads[Sink]) :
          /\ loads[Sink] \in Seq(Emitted(Sink)) /\ loads[Sink] # <<>>
          /\ Chunk.first = loads[Sink][1].lsn /\ Chunk.last = loads[Sink][n].lsn
          /\ Chunk.events \in Seq(Emitted(Sink)) /\ Len(Chunk.events) = n
          /\ \A i \in 1..n : Chunk.events[i] = loads[Sink][i]
          /\ \A e : e \in ToSet(Chunk.events) <=> \E i \in 1..n : e = loads[Sink][i]
    BY <2>2, ChunkIsBeginning DEF Inv, Shaped, Loads, InFiles, InSink
  <2> DEFINE q == loads[s]
  <2>4. /\ n \in 1..Len(q) /\ q \in Seq(Emitted(s)) /\ q # <<>>
        /\ f.name[1] = q[1].lsn /\ f.name[2] = q[n].lsn
        /\ Len(f.events) = n /\ \A i \in 1..n : f.events[i] = q[i]
        /\ \A e : e \in ToSet(f.events) <=> \E i \in 1..n : e = q[i]
    BY <2>2, <2>3 DEF File, FileName
  <2>5. /\ \A i, j \in 1..Len(q) : i < j => q[i].lsn < q[j].lsn
        /\ \A i \in 1..Len(q) : q[i] \in ToSet(Now.emits[q[i].lsn][s])
        /\ \A i \in 1..Len(q) : q[i].lsn \in (Base + 1)..(Base + Len(window))
        /\ \A k \in 1..Len(window) :
             q[1].lsn <= window[k].lsn =>
               ToSet(Configs[window[k].by].emits[window[k].lsn][s]) \subseteq ToSet(q)
    BY <1>0, <2>4 DEF Inv, LoadsAreLone, LoadsAreNow, LoadsInOrder
  <2> HIDE DEF q
  <2>6. Len(q) \in Nat /\ \A i \in 1..Len(q) : q[i].lsn \in Nat /\ q[i].lsn \in Lsns
    BY <2>4, LenProperties, EmittedEvents
  <2>7. ASSUME NEW i \in 1..n
        PROVE  f.events[i].lsn \in f.name[1]..f.name[2] /\ i \in 1..Len(q)
    <3>1. i \in 1..Len(q) /\ 1 \in 1..Len(q) /\ (1 < i \/ 1 = i) /\ (i < n \/ i = n)  BY <2>4, <2>6
    <3> QED BY <2>4, <2>5, <2>6, <3>1
  <2>8. ASSUME NEW l \in f.name[1]..f.name[2], NEW e \in ToSet(Now.emits[l][s])
        PROVE  l \in Lsns /\ e \in ToSet(f.events)
    <3>0. 1 \in 1..Len(q) /\ l \in Nat  BY <2>4, <2>6
    <3>1. l \in (Base + 1)..(Base + Len(window)) /\ Base \in Nat /\ Len(window) \in Nat
      BY <2>4, <2>5, <2>6, <3>0, HandledIsEnd DEF Inv
    <3> DEFINE k == l - Base
    <3>2. k \in 1..Len(window) /\ l = Base + k  BY <3>1
    <3> HIDE DEF k
    <3>3. /\ window[k].lsn = l /\ window[k].by \in Names /\ l \in Lsns
      <4>1. window[k] \in [lsn : Lsns, by : Names] /\ window[k].lsn = Base + k
        BY <3>2, ElementOfSeq DEF Inv, Shaped, Windows
      <4> QED BY <3>2, <4>1
    <3>4. Configs[window[k].by].emits[l][s] = Now.emits[l][s]
      <4>1. CASE changes = 0  BY <3>2, <4>1 DEF Inv, OneVoice, Now
      <4>2. CASE Agreed(s)  BY <3>3, <4>2, ConfigStays DEF Agreed, Now
      <4> QED BY <1>0, <4>1, <4>2 DEF Steady
    <3>5. e \in ToSet(q)  BY <2>4, <2>5, <2>6, <2>8, <3>0, <3>2, <3>3, <3>4
    <3>6. PICK j \in 1..Len(q) : e = q[j]  BY <2>4, <3>5, InSequence
    <3>7. e.lsn = l
      BY <2>8, <3>3, ConfigStays, DeliveryAssumption DEF DeliveryAssumption, IsConfig, Now
    <3>8. ~(n < j)
      <4>1. n < j => q[n].lsn < q[j].lsn  BY <2>4, <2>5
      <4>2. q[j].lsn <= q[n].lsn /\ q[n].lsn \in Nat /\ q[j].lsn \in Nat
        BY <2>4, <2>6, <2>8, <3>0, <3>6, <3>7
      <4> QED BY <4>1, <4>2
    <3>9. j \in 1..n  BY <2>4, <2>6, <3>8
    <3> QED BY <2>4, <3>3, <3>6, <3>9
  <2>9. \A l \in f.name[1]..f.name[2] : l \in Lsns
    <3>1. 1 \in 1..Len(q)  BY <2>4, <2>6
    <3>2. f.name[1] \in Lsns /\ f.name[2] \in Lsns  BY <2>4, <2>6, <3>1
    <3>3. LastLsn \in Nat  BY DeliveryAssumption DEF DeliveryAssumption
    <3>4. \A a, b \in 1..LastLsn : \A l \in a..b : l \in 1..LastLsn  BY <3>3
    <3> QED BY <3>2, <3>4 DEF Lsns
  <2>10. \A i, j \in 1..n : i < j => f.events[i].lsn < f.events[j].lsn  BY <2>4, <2>5, <2>7
  <2>11. \A i \in 1..n : f.events[i] \in ToSet(Now.emits[f.events[i].lsn][s])  BY <2>4, <2>5, <2>7
  <2> QED BY <2>4, <2>7, <2>8, <2>9, <2>10, <2>11
<1> QED BY <1>1, <1>2

---------------------------------------------------------------------------
(* The order of the topics.                                                *)

(* While the configuration stays, what comes before an event that is       *)
(* published is in its topic already.                                      *)
LEMMA EarlierArePublished ==
  ASSUME Inv, pc = "event", changes = 0, NEW s \in Sinks, s = Sink,
         NEW l \in Lsns, l < Head(left).lsn, Known(l)
  PROVE  ToSet(Now.emits[l][s]) \subseteq ToSet(topic[s])
<1>0. /\ Kind[s] = "kafka" /\ left \in Seq(Emitted(s)) /\ left # <<>>
      /\ ToSet(left) \subseteq ToSet(Chunk.events)
      /\ ToSet(Chunk.events) \subseteq ToSet(topic[s]) \cup ToSet(left)
      /\ \A i, j \in 1..Len(left) : i < j => left[i].lsn <= left[j].lsn
  BY DEF Inv, Positions, AtEvent
<1>1. Told(s) /\ Held(s) = ToSet(topic[s])  BY <1>0 DEF Told, Held
<1>2. Head(left) = left[1] /\ Len(left) \in Nat /\ Len(left) > 0 /\ Head(left) \in ToSet(left)
  BY <1>0, InSequence, HeadAndTail
<1>3. \A e \in ToSet(left) : e.lsn \in Nat /\ Head(left).lsn <= e.lsn
  <2>1. SUFFICES ASSUME NEW e \in ToSet(left) PROVE e.lsn \in Nat /\ Head(left).lsn <= e.lsn
    OBVIOUS
  <2>2. PICK i \in 1..Len(left) : e = left[i]  BY <1>0, InSequence
  <2>3. e \in Emitted(s) /\ Head(left) \in Emitted(s)  BY <1>0, InSequence, HeadAndTail
  <2>4. e.lsn \in Nat /\ Head(left).lsn \in Nat  BY <2>3, EmittedEvents
  <2>5. 1 \in 1..Len(left) /\ (1 < i \/ 1 = i)  BY <1>2
  <2> QED BY <1>0, <1>2, <2>2, <2>4, <2>5
<1>4. /\ \A k \in 1..Len(window) : window[k].by = config /\ window[k].lsn = Base + k
      /\ settled[l] \in {Unsent, Quarantined, config}
      /\ settled[l] # Quarantined
      /\ Base \in Nat /\ Len(window) \in Nat /\ config \in Names /\ l \in Nat
  BY HandledIsEnd, ConfigStays DEF Inv, Shaped, Numbers, Windows, OneVoice, Lsns
<1>5. CASE l <= Base
  <2>1. Through(l)  BY <1>4, <1>5 DEF Inv, BaseThrough, Lsns
  <2>2. settled[l] = config  BY <1>4, <2>1 DEF Through
  <2>3. Events(settled[l], l, s) = Now.emits[l][s]  BY <1>4, <2>2 DEF Events, Now
  <2> QED BY <1>1, <2>1, <2>3 DEF Through
<1>6. CASE Base < l
  <2>1. PICK n \in 1..Len(loads[s]) :
          /\ loads[s] \in Seq(Emitted(s))
          /\ \A e : e \in ToSet(Chunk.events) <=> \E i \in 1..n : e = loads[s][i]
    BY ChunkIsBeginning DEF Inv, Shaped, Loads, InSink
  <2>2. /\ Len(loads[s]) \in Nat /\ \A i \in 1..Len(loads[s]) : loads[s][i].lsn \in Nat
        /\ \A i, j \in 1..Len(loads[s]) : i < j => loads[s][i].lsn <= loads[s][j].lsn
        /\ \A i \in 1..Len(loads[s]) : loads[s][i].lsn \in (Base + 1)..(Base + Len(window))
    BY <2>1, LenProperties, EmittedEvents DEF Inv, LoadsInOrder
  <2>3. PICK m \in 1..n : Head(left) = loads[s][m]  BY <1>0, <1>2, <2>1
  <2> DEFINE k == l - Base
  <2>4. k \in 1..Len(window) /\ l = Base + k
    <3>1. m \in 1..Len(loads[s])  BY <2>1, <2>2
    <3>2. Head(left).lsn \in (Base + 1)..(Base + Len(window))  BY <2>2, <2>3, <3>1
    <3> QED BY <1>4, <1>6, <3>2
  <2> HIDE DEF k
  <2>5. ToSet(Now.emits[l][s]) \subseteq ToSet(topic[s]) \cup ToSet(loads[s])
    BY <1>1, <1>4, <2>4 DEF Inv, WindowOnItsWay, Now
  <2>6. ASSUME NEW e \in ToSet(Now.emits[l][s]), e \in ToSet(loads[s])
        PROVE  e \in ToSet(topic[s])
    <3>1. e.lsn = l
      BY <1>4, DeliveryAssumption DEF DeliveryAssumption, IsConfig, Now
    <3>2. PICK j \in 1..Len(loads[s]) : e = loads[s][j]  BY <2>1, <2>6, InSequence
    <3>3. m \in 1..Len(loads[s]) /\ loads[s][j].lsn < loads[s][m].lsn  BY <2>1, <2>2, <2>3, <3>1, <3>2
    <3>4. j <= m
      <4>1. ~(m < j)  BY <2>2, <3>3
      <4> QED BY <2>2, <3>3, <4>1
    <3>5. j \in 1..n  BY <2>1, <2>2, <3>4
    <3>6. e \in ToSet(topic[s]) \/ e \in ToSet(left)  BY <1>0, <2>1, <3>2, <3>5
    <3>7. e \notin ToSet(left)
      <4>1. e \in ToSet(left) => Head(left).lsn <= e.lsn  BY <1>3
      <4>2. Head(left).lsn \in Nat  BY <2>2, <2>3, <3>3
      <4> QED BY <1>4, <3>1, <4>1, <4>2
    <3> QED BY <3>6, <3>7
  <2> QED BY <2>5, <2>6
<1>7. l <= Base \/ Base < l  BY <1>4
<1> QED BY <1>5, <1>6, <1>7

(* While the configuration stays, an event in a chunk is of a record whose *)
(* sinks the router has.                                                   *)
LEMMA HeadIsKnown ==
  ASSUME Inv, pc = "event", changes = 0, NEW s \in Sinks, s = Sink
  PROVE  /\ Head(left) \in Emitted(s) /\ Head(left).lsn \in Lsns /\ Known(Head(left).lsn)
         /\ Head(left) \in ToSet(Now.emits[Head(left).lsn][s])
<1>1. /\ left \in Seq(Emitted(s)) /\ left # <<>> /\ ToSet(left) \subseteq ToSet(Chunk.events)
  BY DEF Inv, Positions, AtEvent
<1>2. Head(left) \in Emitted(s) /\ Head(left) \in ToSet(Chunk.events)  BY <1>1, HeadAndTail
<1>3. PICK n \in 1..Len(loads[s]) :
        /\ loads[s] \in Seq(Emitted(s))
        /\ \A e : e \in ToSet(Chunk.events) <=> \E i \in 1..n : e = loads[s][i]
  BY ChunkIsBeginning DEF Inv, Shaped, Loads, InSink
<1>4. PICK m \in 1..n : Head(left) = loads[s][m]  BY <1>2, <1>3
<1>5. m \in 1..Len(loads[s])  BY <1>3, LenProperties
<1>6. Head(left) \in ToSet(Now.emits[Head(left).lsn][s])
  BY <1>4, <1>5 DEF Inv, LoadsAreNow, Steady
<1>7. Head(left).lsn \in (Base + 1)..(Base + Len(window)) /\ Base \in Nat /\ Len(window) \in Nat
  BY <1>4, <1>5, HandledIsEnd DEF Inv, LoadsInOrder
<1> DEFINE k == Head(left).lsn - Base
<1>8. k \in 1..Len(window) /\ Head(left).lsn = Base + k  BY <1>7
<1> HIDE DEF k
<1>9. window[k].lsn = Head(left).lsn /\ Known(window[k].lsn)
  BY <1>8 DEF Inv, Shaped, Windows, OneVoice
<1> QED BY <1>2, <1>6, <1>9, EmittedEvents

LEMMA TopicsStayInOrder ==
  ASSUME Inv, [Next]_vars
  PROVE  TopicsInOrder'
<1> SUFFICES ASSUME changes' = 0, NEW s \in Sinks
             PROVE  /\ \A i, j \in 1..Len(topic'[s]) : i < j => topic'[s][i].lsn <= topic'[s][j].lsn
                    /\ \A i \in 1..Len(topic'[s]), l \in Lsns :
                         l < topic'[s][i].lsn /\ Known(l) =>
                           ToSet(Now.emits[l][s]) \subseteq ToSet(topic'[s])
  BY ConfigStays DEF TopicsInOrder
<1>0. /\ changes = 0 /\ topic[s] \in Seq(Emitted(s))
      /\ \A i, j \in 1..Len(topic[s]) : i < j => topic[s][i].lsn <= topic[s][j].lsn
      /\ \A i \in 1..Len(topic[s]), l \in Lsns :
           l < topic[s][i].lsn /\ Known(l) => ToSet(Now.emits[l][s]) \subseteq ToSet(topic[s])
  BY ConfigStays DEF Inv, TopicsInOrder, Shaped, Outside
<1>1. CASE topic'[s] = topic[s]  BY <1>0, <1>1
<1>2. CASE topic'[s] # topic[s]
  <2>1. pc = "event" /\ Publish(Sink, Head(left))  BY <1>2, StepKinds DEF TopicGrows
  <2>2. Sink \in Sinks /\ Head(left) \in Emitted(Sink)
    <3>1. Sink \in Sinks  BY <2>1, SinkIsFirst DEF Inv, Shaped, Loads, InSink
    <3> QED BY <1>0, <2>1, <3>1, HeadIsKnown
  <2>3. s = Sink  BY <1>2, <2>1, <2>2, PublishAdds DEF Inv, Shaped
  <2> DEFINE x == Head(left)
             T == topic[s]
  <2>4. /\ x \notin ToSet(T) /\ topic'[s] = Append(T, x) /\ x \in Emitted(s)
        /\ ToSet(topic'[s]) = ToSet(T) \cup {x}
    BY <1>2, <2>1, <2>2, <2>3, PublishAdds DEF Inv, Shaped
  <2>5. /\ x.lsn \in Lsns /\ Known(x.lsn) /\ x \in ToSet(Now.emits[x.lsn][s]) /\ x.lsn \in Nat
        /\ \A l \in Lsns : l < x.lsn /\ Known(l) => ToSet(Now.emits[l][s]) \subseteq ToSet(T)
    <3>1. /\ x.lsn \in Lsns /\ Known(x.lsn) /\ x \in ToSet(Now.emits[x.lsn][s])
      BY <1>0, <2>1, <2>3, HeadIsKnown
    <3>2. \A l \in Lsns : l < x.lsn /\ Known(l) => ToSet(Now.emits[l][s]) \subseteq ToSet(T)
      BY <1>0, <2>1, <2>3, EarlierArePublished
    <3> QED BY <3>1, <3>2 DEF Lsns
  <2> HIDE DEF x
  <2>6. /\ Len(topic'[s]) = Len(T) + 1 /\ Len(T) \in Nat
        /\ \A i \in 1..Len(T) : topic'[s][i] = T[i] /\ T[i].lsn \in Nat
        /\ topic'[s][Len(T) + 1] = x
    BY <1>0, <2>4, AppendProperties, LenProperties, EmittedEvents
  <2>7. \A i \in 1..Len(T) : T[i].lsn <= x.lsn
    <3>1. SUFFICES ASSUME NEW i \in 1..Len(T), x.lsn < T[i].lsn PROVE FALSE  BY <2>5, <2>6
    <3>2. ToSet(Now.emits[x.lsn][s]) \subseteq ToSet(T)  BY <1>0, <2>5, <3>1
    <3> QED BY <2>4, <2>5, <3>2
  <2>8. ASSUME NEW i \in 1..Len(topic'[s]), NEW j \in 1..Len(topic'[s]), i < j
        PROVE  topic'[s][i].lsn <= topic'[s][j].lsn
    <3>1. i \in 1..Len(T) /\ (j \in 1..Len(T) \/ j = Len(T) + 1)  BY <2>6, <2>8
    <3> QED BY <1>0, <2>6, <2>7, <2>8, <3>1
  <2>9. ASSUME NEW i \in 1..Len(topic'[s]), NEW l \in Lsns, l < topic'[s][i].lsn, Known(l)
        PROVE  ToSet(Now.emits[l][s]) \subseteq ToSet(topic'[s])
    <3>1. i \in 1..Len(T) \/ i = Len(T) + 1  BY <2>6
    <3>2. ToSet(Now.emits[l][s]) \subseteq ToSet(T)  BY <1>0, <2>5, <2>6, <2>9, <3>1
    <3> QED BY <2>4, <3>2
  <2> QED BY <2>8, <2>9
<1> QED BY <1>1, <1>2

---------------------------------------------------------------------------
(* The invariant.                                                          *)

LEMMA InitInv == Init => Inv
<1> SUFFICES ASSUME Init PROVE Inv  OBVIOUS
<1>0. /\ LastLsn \in Nat /\ Lsns = 1..LastLsn  BY DeliveryAssumption DEF DeliveryAssumption, Lsns
<1>00. /\ \A s \in Sinks : loads[s] = <<>> /\ topic[s] = <<>> /\ files[s] = {}
       /\ window = <<>> /\ Len(<<>>) = 0 /\ 1..0 = {} /\ ToSet(<<>>) = {}
       /\ pc = "idle" /\ changes = 0 /\ Base = 0
  BY DEF Init, NoLoads, Base, ToSet
<1>1. Numbers  BY <1>0 DEF Init, Numbers, Pcs
<1>2. Windows
  <2>1. window \in Seq([lsn : Lsns, by : Names]) /\ Len(window) = 0 /\ 1..Len(window) = {}
    BY <1>00
  <2> QED BY <1>00, <2>1 DEF Windows, InSink
<1>3. Loads  BY <1>00 DEF Init, Loads, NoLoads, InSink
<1>4. Outside  BY <1>00 DEF Init, Outside
<1>5. LoadsInOrder  BY <1>00 DEF LoadsInOrder
<1>6. OneVoice
  <2>1. \A l \in Lsns : settled[l] = Unsent  BY DEF Init
  <2> QED BY <1>00, <2>1 DEF OneVoice, Unsent, Quarantined
<1>7. LoadsAreNow /\ LoadsAreLone /\ WindowOnItsWay
  BY <1>00 DEF LoadsAreNow, LoadsAreLone, WindowOnItsWay
<1>8. Positions  BY <1>00 DEF Positions, AtEvent, AtFile, InFiles
<1>9. BaseThrough  BY <1>00 DEF BaseThrough
<1>10. FilesTell /\ TopicsInOrder  BY <1>00 DEF FilesTell, TopicsInOrder
<1> QED BY <1>1, <1>2, <1>3, <1>4, <1>5, <1>6, <1>7, <1>8, <1>9, <1>10 DEF Inv, Shaped

LEMMA InvNext ==
  ASSUME Inv, [Next]_vars
  PROVE  Inv'
BY ShapedStays, LoadsInOrderStay, OneVoiceStays, LoadsAreNowStay, LoadsAreLoneStay,
   AtEventStays, AtFileStays, BaseStaysThrough, WindowIsOnItsWay, FilesStillTell, TopicsStayInOrder
   DEF Inv, Positions

---------------------------------------------------------------------------
(* The theorems.                                                           *)

(* The window is always the records after the last one handled, what is    *)
(* left of it is in its sinks or on its way to them, in log order.         *)
THEOREM DeliveryInvariant == Spec => []Inv
<1> QED BY InitInv, InvNext, PTL DEF Spec

(* The state always has the types of TypeOK; a pass that is at a sink has  *)
(* something left for it (send_sink_events_in_batches has no empty chunk). *)
THEOREM TypeCorrect == Spec => []TypeOK
<1>1. ASSUME Inv PROVE TypeOK
  <2>1. \A i \in DOMAIN window : window[i].lsn \in Lsns
    <3>1. window \in Seq([lsn : Lsns, by : Names])  BY <1>1 DEF Inv, Shaped, Windows
    <3>2. \A i \in DOMAIN window : window[i] \in [lsn : Lsns, by : Names]  BY <3>1, LenProperties
    <3> QED BY <3>2
  <2> QED BY <1>1, <2>1 DEF Inv, Shaped, Numbers, Loads, TypeOK, Pcs, InSink
<1> QED BY <1>1, DeliveryInvariant, PTL

(* Whatever fails, crashes or changes, a record the checkpoint covers has  *)
(* been handled, and the events that were emitted for it are in its topics *)
(* - and in the Parquet files of a sink that takes one event of a record   *)
(* at most, the same whoever emits it.                                     *)
THEOREM RecordsAreThrough == Spec => [](\A l \in 1..checkpoint : Through(l))
<1>1. ASSUME Inv, NEW l \in 1..checkpoint PROVE Through(l)
  <2>1. l \in 1..Base
    <3>1. checkpoint \in Nat /\ Base \in Nat /\ checkpoint <= Base  BY <1>1, HandledIsEnd DEF Inv
    <3> QED BY <1>1, <3>1
  <2> QED BY <1>1, <2>1 DEF Inv, BaseThrough
<1>2. Inv => \A l \in 1..checkpoint : Through(l)  BY <1>1
<1> QED BY <1>2, DeliveryInvariant, PTL

(* Ok only after the commit point (sinks/mod.rs): the checkpoint covers a  *)
(* record only when its events are in the sinks that keep them, if a       *)
(* record gives a Parquet sink one event at most and always the same one.  *)
(* Without that a file can be taken for a chunk it does not hold.          *)
THEOREM NothingIsLost ==
  ASSUME \A s \in Sinks : Kind[s] = "parquet" => Lone(s) /\ Agreed(s)
  PROVE  Spec => []NothingLost
<1>1. (\A l \in 1..checkpoint : Through(l)) => NothingLost
  <2>1. SUFFICES ASSUME \A l \in 1..checkpoint : Through(l), NEW l \in 1..checkpoint
                 PROVE  /\ settled[l] # Unsent
                        /\ \A s \in Keeping : ToSet(Events(settled[l], l, s)) \subseteq Held(s)
    BY DEF NothingLost
  <2>2. \A s \in Keeping : s \in Sinks /\ Told(s)  BY DEF Keeping, Told, Steady
  <2> QED BY <2>1, <2>2 DEF Through
<1> QED BY <1>1, RecordsAreThrough, PTL

(* While the configuration stays, a topic shows every event in log order,  *)
(* whatever was tried again (replay.rs: the window is sent again whole).   *)
THEOREM TopicsKeepOrder == Spec => []InLogOrder
<1>1. ASSUME Inv PROVE InLogOrder
  <2>1. \A s \in Sinks : DOMAIN topic[s] = 1..Len(topic[s])
    BY <1>1, LenProperties DEF Inv, Shaped, Outside
  <2> QED BY <1>1, <2>1 DEF Inv, TopicsInOrder, InLogOrder
<1> QED BY <1>1, DeliveryInvariant, PTL

(* While the configuration stays, the name of a file tells what is in it   *)
(* (sinks/parquet.rs: the first and the last LSN of the chunk), if a       *)
(* record gives the sink one event at most.                                *)
THEOREM FilesHoldAll ==
  ASSUME \A s \in Sinks : Kind[s] = "parquet" => Lone(s)
  PROVE  Spec => []FilesAreWhole
<1>1. Inv => FilesAreWhole
  <2>1. SUFFICES ASSUME Inv, changes = 0, NEW s \in Sinks, NEW f \in files[s]
                 PROVE  /\ ToSet(f.events) =
                             UNION {ToSet(Now.emits[l][s]) : l \in f.name[1]..f.name[2]}
                        /\ \A i, j \in DOMAIN f.events :
                             i < j => Precedes(f.events[i], f.events[j])
    BY DEF FilesAreWhole
  <2>2. Lone(s) /\ Steady(s)
    <3>1. Kind[s] = "parquet"  BY <2>1 DEF Inv, Shaped, Outside
    <3> QED BY <2>1, <3>1 DEF Steady
  <2>3. /\ \A i \in 1..Len(f.events) :
             /\ f.events[i].lsn \in f.name[1]..f.name[2]
             /\ f.events[i] \in ToSet(Now.emits[f.events[i].lsn][s])
        /\ \A l \in f.name[1]..f.name[2] : ToSet(Now.emits[l][s]) \subseteq ToSet(f.events)
        /\ \A i, j \in 1..Len(f.events) : i < j => f.events[i].lsn < f.events[j].lsn
    BY <2>1, <2>2 DEF Inv, FilesTell
  <2>4. /\ DOMAIN f.events = 1..Len(f.events)
        /\ \A e : e \in ToSet(f.events) <=> \E i \in 1..Len(f.events) : e = f.events[i]
    BY <2>1, InSequence DEF Inv, Shaped, Outside
  <2> DEFINE held == ToSet(f.events)
             due == UNION {ToSet(Now.emits[l][s]) : l \in f.name[1]..f.name[2]}
  <2>5. held \subseteq due
    <3>1. SUFFICES ASSUME NEW e \in held PROVE e \in due  OBVIOUS
    <3>2. PICK i \in 1..Len(f.events) : e = f.events[i]  BY <2>4
    <3>3. e.lsn \in f.name[1]..f.name[2] /\ e \in ToSet(Now.emits[e.lsn][s])  BY <2>3, <3>2
    <3> QED BY <3>3
  <2>6. due \subseteq held  BY <2>3
  <2> QED BY <2>3, <2>4, <2>5, <2>6 DEF Precedes
<1> QED BY <1>1, DeliveryInvariant, PTL


---------------------------------------------------------------------------
(***************************************************************************)
(* Where windows and chunks end.  While neither the configuration nor the  *)
(* log changes, both are cut at the same places whenever they are cut.     *)
(***************************************************************************)

(* What is reached from 0 by the steps of R.                               *)
Closed(M, R) == 0 \in M /\ \A p \in R : p[1] \in M => p[2] \in M
Reach(R, n) == {x \in 0..n : \A M \in SUBSET (0..n) : Closed(M, R) => x \in M}

(* Steps that go forward and have one end each leave nothing out that is   *)
(* reached.                                                                *)
Forward(R, n) ==
  /\ R \subseteq (0..n) \X (0..n)
  /\ \A p \in R : p[1] < p[2]
  /\ \A p, q \in R : p[1] = q[1] => p = q

LEMMA ReachSteps ==
  ASSUME NEW n \in Nat, NEW R, Forward(R, n)
  PROVE  /\ 0 \in Reach(R, n)
         /\ \A p \in R : p[1] \in Reach(R, n) => p[2] \in Reach(R, n)
         /\ \A M \in SUBSET (0..n) : Closed(M, R) => Reach(R, n) \subseteq M
<1>1. \A p \in R : p[2] \in 0..n  BY DEF Forward
<1> QED BY <1>1 DEF Reach, Closed

LEMMA NothingLeftOut ==
  ASSUME NEW n \in Nat, NEW R, Forward(R, n), NEW p \in R, NEW y \in Reach(R, n),
         p[1] \in Reach(R, n), p[1] < y
  PROVE  p[2] <= y
<1> DEFINE There == Reach(R, n)
           Sure(x) == \A o \in R : o[1] \in There /\ o[1] < x => o[2] <= x
           M == {x \in There : Sure(x)}
<1>1. \A o \in R : o[1] \in 0..n /\ o[2] \in 0..n /\ o[1] < o[2]  BY DEF Forward
<1>2. \A o, r \in R : o[1] = r[1] => o[2] = r[2]  BY DEF Forward
<1>3. /\ 0 \in There /\ There \subseteq 0..n
      /\ \A o \in R : o[1] \in There => o[2] \in There
      /\ \A L \in SUBSET (0..n) : Closed(L, R) => There \subseteq L
  BY ReachSteps DEF Reach
<1> HIDE DEF There
<1>4. ASSUME NEW x \in M, NEW z \in There
      PROVE  z <= x \/ \E o \in R : o[1] = x /\ o[2] <= z
  <2> DEFINE L == {w \in There : w <= x \/ \E o \in R : o[1] = x /\ o[2] <= w}
  <2>1. 0 \in L  BY <1>3
  <2>2. ASSUME NEW o \in R, o[1] \in L PROVE o[2] \in L
    <3>1. o[2] \in There /\ o[1] < o[2] /\ o[1] \in 0..n /\ o[2] \in 0..n /\ x \in 0..n
      BY <1>1, <1>3, <2>2
    <3>2. CASE o[1] < x  BY <2>2, <3>1, <3>2
    <3>3. CASE o[1] = x  BY <3>1, <3>3
    <3>4. CASE \E r \in R : r[1] = x /\ r[2] <= o[1]
      <4>1. PICK r \in R : r[1] = x /\ r[2] <= o[1]  BY <3>4
      <4>2. r[2] \in 0..n  BY <1>1
      <4>3. r[2] <= o[2]  BY <3>1, <4>1, <4>2
      <4> QED BY <3>1, <4>1, <4>3
    <3> QED BY <2>2, <3>1, <3>2, <3>3, <3>4
  <2>3. L \in SUBSET (0..n)  BY <1>3
  <2>4. There \subseteq L  BY <1>3, <2>1, <2>2, <2>3 DEF Closed
  <2> QED BY <2>4
<1>5. 0 \in M
  <2>1. \A o \in R : ~(o[1] < 0)  BY <1>1
  <2> QED BY <1>3, <2>1
<1>6. ASSUME NEW o \in R, o[1] \in M PROVE o[2] \in M
  <2>1. o[2] \in There /\ o[1] < o[2] /\ o[1] \in 0..n /\ o[2] \in 0..n  BY <1>1, <1>3, <1>6
  <2>2. ASSUME NEW r \in R, r[1] \in There, r[1] < o[2] PROVE r[2] <= o[2]
    <3>1. r[1] \in 0..n /\ r[2] \in 0..n  BY <1>1
    <3>2. r[1] <= o[1] \/ \E q \in R : q[1] = o[1] /\ q[2] <= r[1]  BY <1>4, <1>6, <2>2
    <3>3. r[1] <= o[1]
      <4>1. SUFFICES ASSUME NEW q \in R, q[1] = o[1], q[2] <= r[1] PROVE FALSE  BY <3>2
      <4>2. q[2] = o[2]  BY <1>2, <4>1
      <4> QED BY <2>1, <2>2, <3>1, <4>1, <4>2
    <3>4. CASE r[1] = o[1]  BY <1>2, <2>1, <3>4
    <3>5. CASE r[1] < o[1]
      <4>1. r[2] <= o[1]  BY <1>6, <2>2, <3>5
      <4> QED BY <2>1, <3>1, <4>1
    <3> QED BY <2>1, <3>1, <3>3, <3>4, <3>5
  <2> QED BY <2>1, <2>2
<1>7. M \in SUBSET (0..n)  BY <1>3
<1>8. There \subseteq M
  <2> HIDE DEF M
  <2> QED BY <1>3, <1>5, <1>6, <1>7 DEF Closed
<1> QED BY <1>8 DEF There

(* How the records of the log are cut into windows.                        *)
Step(b, c) ==
  /\ b < c
  /\ \/ ~Known(b + 1) /\ c = b + 1
     \/ /\ \A l \in (b + 1)..c : Known(l)
        /\ c - b <= WindowRecords
        /\ c - b = WindowRecords \/ c = available \/ ~Known(c + 1)
Steps == {p \in (0..available) \X (0..available) : Step(p[1], p[2])}
Marks == Reach(Steps, available)

LEMMA StepsGoForward == available \in Nat => Forward(Steps, available)
<1> SUFFICES ASSUME available \in Nat,
                    NEW b \in 0..available, NEW c \in 0..available, NEW d \in 0..available,
                    Step(b, c), Step(b, d)
             PROVE  b < c /\ c = d
  BY DEF Forward, Steps
<1>0. WindowRecords \in Nat  BY DeliveryAssumption DEF DeliveryAssumption
<1>1. b < c /\ b < d /\ b + 1 \in (b + 1)..c /\ b + 1 \in (b + 1)..d  BY DEF Step
<1>2. CASE ~Known(b + 1)  BY <1>1, <1>2 DEF Step
<1>3. CASE Known(b + 1)
  <2>1. ASSUME NEW x \in 0..available, NEW y \in 0..available, Step(b, x), Step(b, y)
        PROVE  ~(x < y)
    <3>1. SUFFICES ASSUME x < y PROVE FALSE  OBVIOUS
    <3>2. /\ b < x /\ x - b <= WindowRecords
          /\ x - b = WindowRecords \/ x = available \/ ~Known(x + 1)
      BY <1>3, <2>1 DEF Step
    <3>3. (\A l \in (b + 1)..y : Known(l)) /\ y - b <= WindowRecords  BY <1>3, <2>1 DEF Step
    <3>4. x + 1 \in (b + 1)..y  BY <3>1, <3>2
    <3>5. x - b < y - b /\ x # available  BY <3>1
    <3> QED BY <1>0, <3>2, <3>3, <3>4, <3>5
  <2> QED BY <1>1, <2>1
<1> QED BY <1>2, <1>3

(* How the events of a window for a sink are cut into chunks.              *)
Rest(q, k) == SubSeq(q, k + 1, Len(q))
Cut(q, limits, k) == k + ChunkLength(Rest(q, k), limits)
CutSteps(q, limits) ==
  {p \in (0..Len(q)) \X (0..Len(q)) : p[1] < Len(q) /\ p[2] = Cut(q, limits, p[1])}
Cuts(q, limits) == Reach(CutSteps(q, limits), Len(q))

LEMMA RestIs ==
  ASSUME NEW T, NEW q \in Seq(T), NEW k \in 0..Len(q)
  PROVE  /\ Rest(q, k) \in Seq(T) /\ Len(Rest(q, k)) = Len(q) - k
         /\ \A i \in 1..(Len(q) - k) : Rest(q, k)[i] = q[k + i]
         /\ k = 0 => Rest(q, k) = q
<1>0. Len(q) \in Nat /\ DOMAIN q = 1..Len(q)  BY InSequence
<1>1. CASE k = 0
  <2>1. SubSeq(q, 1, Len(q)) = q
    <3>1. \A i \in 1..Len(q) : q[i] \in T  BY <1>0, LenProperties
    <3>2. /\ SubSeq(q, 1, Len(q)) \in Seq(T) /\ Len(SubSeq(q, 1, Len(q))) = Len(q)
          /\ \A i \in 1..Len(q) : SubSeq(q, 1, Len(q))[i] = q[i]
      BY <1>0, <3>1, SubSeqProperties
    <3> QED BY <3>2, SeqEqual
  <2>2. Rest(q, k) = q  BY <1>1, <2>1 DEF Rest
  <2>3. Len(q) - k = Len(q) /\ \A i \in 1..Len(q) : k + i = i  BY <1>0, <1>1
  <2> QED BY <2>2, <2>3
<1>2. CASE k # 0
  <2>1. k \in 1..Len(q)  BY <1>0, <1>2
  <2> QED BY <1>2, <2>1, CutAfter DEF Rest
<1> QED BY <1>1, <1>2

LEMMA CutsGoForward ==
  ASSUME NEW T, NEW q \in Seq(T), NEW limits
  PROVE  /\ Len(q) \in Nat
         /\ Forward(CutSteps(q, limits), Len(q))
         /\ \A k \in 0..(Len(q) - 1) : Cut(q, limits, k) \in (k + 1)..Len(q)
<1>0. Len(q) \in Nat  BY InSequence
<1>1. ASSUME NEW k \in 0..(Len(q) - 1) PROVE Cut(q, limits, k) \in (k + 1)..Len(q)
  <2> DEFINE r == Rest(q, k)
  <2>1. k \in 0..Len(q) /\ Len(q) - k > 0  BY <1>0
  <2>2. r \in Seq(T) /\ Len(r) = Len(q) - k  BY <2>1, RestIs
  <2> HIDE DEF r
  <2>3. r # <<>>  BY <2>1, <2>2
  <2>4. ChunkLength(r, limits) \in 1..Len(r)  BY <2>2, <2>3, ChunkTakesSome
  <2>5. ChunkLength(r, limits) \in Nat /\ ChunkLength(r, limits) >= 1
        /\ ChunkLength(r, limits) <= Len(q) - k
    BY <1>0, <2>2, <2>4
  <2> QED BY <1>0, <2>5 DEF Cut, r
<1>2. \A k \in 0..Len(q) : k < Len(q) => k \in 0..(Len(q) - 1)  BY <1>0
<1>3. \A k \in 0..Len(q) : k < Len(q) => k < Cut(q, limits, k)
  <2>1. \A k \in 0..Len(q) : k < Len(q) => Cut(q, limits, k) \in (k + 1)..Len(q)
    BY <1>1, <1>2
  <2> QED BY <1>0, <2>1
<1> DEFINE R == CutSteps(q, limits)
<1>4. R \subseteq (0..Len(q)) \X (0..Len(q))  BY DEF CutSteps
<1>5. \A p \in R : p[1] \in 0..Len(q) /\ p[1] < Len(q) /\ p[2] = Cut(q, limits, p[1])
  BY DEF CutSteps
<1>6. \A p \in R : p[1] < p[2]  BY <1>3, <1>5
<1>7. ASSUME NEW o \in R, NEW p \in R, o[1] = p[1] PROVE o = p
  <2>1. o[2] = p[2]  BY <1>5, <1>7
  <2> QED BY <1>4, <1>7, <2>1
<1> QED BY <1>0, <1>1, <1>4, <1>6, <1>7 DEF Forward

(* What a sink is to get of the records after b up to c.                   *)
Sorted(q) == \A i, j \in 1..Len(q) : i < j => Precedes(q[i], q[j])
IsLoad(s, b, c, q) ==
  /\ q \in Seq(Emitted(s)) /\ Sorted(q)
  /\ \A e : e \in ToSet(q) <=> \E l \in (b + 1)..c : l \in Lsns /\ e \in ToSet(Now.emits[l][s])

LEMMA EmittedOrder ==
  ASSUME NEW s \in Sinks
  PROVE  /\ \A e \in Emitted(s) : e.lsn \in Nat /\ e.n \in Nat /\ ~Precedes(e, e)
         /\ \A e, f \in Emitted(s) : Precedes(e, f) => ~Precedes(f, e)
<1>1. \A e \in Emitted(s) : e.lsn \in Nat /\ e.n \in Nat  BY EmittedEvents DEF IsEvent
<1> QED BY <1>1 DEF Precedes

(* It is one sequence only.                                                *)
LEMMA OneOrder ==
  ASSUME NEW s \in Sinks, NEW q \in Seq(Emitted(s)), NEW r \in Seq(Emitted(s)),
         Sorted(q), Sorted(r), ToSet(q) = ToSet(r), Len(q) <= Len(r)
  PROVE  q = r
<1> DEFINE Off == {i \in 1..Len(r) : i > Len(q) \/ q[i] # r[i]}
<1>1. /\ Len(q) \in Nat /\ Len(r) \in Nat
      /\ \A e : e \in ToSet(q) <=> \E i \in 1..Len(q) : e = q[i]
      /\ \A e : e \in ToSet(r) <=> \E i \in 1..Len(r) : e = r[i]
      /\ \A i \in 1..Len(q) : q[i] \in Emitted(s)
      /\ \A i \in 1..Len(r) : r[i] \in Emitted(s)
  BY InSequence, LenProperties
<1>2. Off = {}
  <2>1. SUFFICES ASSUME Off # {} PROVE FALSE  OBVIOUS
  <2>2. Off \subseteq Nat  OBVIOUS
  <2> HIDE DEF Off
  <2>3. PICK i \in Off : \A j \in Off : i <= j  BY <2>1, <2>2, LeastOf
  <2>4. i \in 1..Len(r) /\ (i > Len(q) \/ q[i] # r[i])  BY DEF Off
  <2>5. \A j \in 1..Len(r) : j < i => j <= Len(q) /\ q[j] = r[j]
    BY <1>1, <2>2, <2>3, <2>4 DEF Off
  <2>6. PICK j \in 1..Len(q) : r[i] = q[j]  BY <1>1, <2>4
  <2>7. i <= j
    <3>1. SUFFICES ASSUME j < i PROVE FALSE  BY <1>1, <2>4
    <3>2. j \in 1..Len(r) /\ r[j] = r[i]  BY <1>1, <2>4, <2>5, <2>6, <3>1
    <3>3. Precedes(r[j], r[i])  BY <2>4, <3>1, <3>2 DEF Sorted
    <3> QED BY <1>1, <2>4, <3>2, <3>3, EmittedOrder
  <2>8. i \in 1..Len(q) /\ q[i] # r[i] /\ i < j
    <3>1. i \in 1..Len(q)  BY <1>1, <2>4, <2>7
    <3>2. q[i] # r[i]  BY <1>1, <2>4, <3>1
    <3> QED BY <2>6, <2>7, <3>1, <3>2
  <2>9. Precedes(q[i], r[i])  BY <2>6, <2>8 DEF Sorted
  <2>10. PICK k \in 1..Len(r) : q[i] = r[k]  BY <1>1, <2>8
  <2>11. i <= k
    <3>1. SUFFICES ASSUME k < i PROVE FALSE  BY <1>1, <2>4
    <3>2. k \in 1..Len(q) /\ q[k] = q[i]  BY <1>1, <2>4, <2>5, <2>10, <3>1
    <3>3. Precedes(q[k], q[i])  BY <2>8, <3>1, <3>2 DEF Sorted
    <3> QED BY <1>1, <2>8, <3>2, <3>3, EmittedOrder
  <2>12. i < k  BY <1>1, <2>4, <2>8, <2>10, <2>11
  <2>13. Precedes(r[i], q[i])  BY <2>4, <2>10, <2>12 DEF Sorted
  <2> QED BY <1>1, <2>4, <2>8, <2>9, <2>13, EmittedOrder
<1>3. \A i \in 1..Len(r) : i <= Len(q) /\ q[i] = r[i]  BY <1>1, <1>2
<1>4. Len(q) = Len(r)
  <2>1. SUFFICES ASSUME Len(q) < Len(r) PROVE FALSE  BY <1>1
  <2>2. Len(r) \in 1..Len(r)  BY <1>1, <2>1
  <2> QED BY <1>1, <1>3, <2>1, <2>2
<1> QED BY <1>3, <1>4, SeqEqual

LEMMA OneLoad ==
  ASSUME NEW s \in Sinks, NEW b, NEW c, NEW q, NEW r, IsLoad(s, b, c, q), IsLoad(s, b, c, r)
  PROVE  q = r
<1>1. /\ q \in Seq(Emitted(s)) /\ Sorted(q) /\ r \in Seq(Emitted(s)) /\ Sorted(r)
      /\ \A e : e \in ToSet(q) <=> e \in ToSet(r)
  BY DEF IsLoad
<1>2. ToSet(q) = ToSet(r)  BY <1>1
<1>3. Len(q) \in Nat /\ Len(r) \in Nat  BY <1>1, InSequence
<1>4. CASE Len(q) <= Len(r)  BY <1>1, <1>2, <1>4, OneOrder
<1>5. CASE Len(r) <= Len(q)  BY <1>1, <1>2, <1>5, OneOrder
<1> QED BY <1>3, <1>4, <1>5

LEMMA EventsOfLoad ==
  ASSUME NEW s \in Sinks, NEW b, NEW c, NEW q, IsLoad(s, b, c, q), config \in Names
  PROVE  \A x \in ToSet(q) : x.lsn \in (b + 1)..c
<1>1. \A l \in Lsns : \A x \in ToSet(Now.emits[l][s]) : x.lsn = l
  BY DeliveryAssumption DEF DeliveryAssumption, IsConfig, Now
<1> QED BY <1>1 DEF IsLoad

(* A file that is a chunk of a window cut where windows and chunks end.    *)
ChunkAt(q, limits, k) == ChunkOf(Rest(q, k), ChunkLength(Rest(q, k), limits))
IsChunk(s, b, c, q, k, f) ==
  /\ <<b, c>> \in Steps /\ b \in Marks
  /\ IsLoad(s, b, c, q)
  /\ k \in Cuts(q, Now.batch[s]) /\ k < Len(q)
  /\ f = File(ChunkAt(q, Now.batch[s], k))

CutOut(s, q, k, f) ==
  /\ q \in Seq(Emitted(s)) /\ Len(q) \in Nat /\ k \in 0..(Len(q) - 1)
  /\ Cut(q, Now.batch[s], k) \in (k + 1)..Len(q)
  /\ <<k, Cut(q, Now.batch[s], k)>> \in CutSteps(q, Now.batch[s])
  /\ \A e : e \in ToSet(f.events) <=> \E i \in (k + 1)..Cut(q, Now.batch[s], k) : e = q[i]

LEMMA ChunkHolds ==
  ASSUME NEW s \in Sinks, NEW b, NEW c, NEW q, NEW k, NEW f, IsChunk(s, b, c, q, k, f)
  PROVE  CutOut(s, q, k, f)
<1> DEFINE limits == Now.batch[s]
           r == Rest(q, k)
           n == ChunkLength(r, limits)
<1>1. q \in Seq(Emitted(s)) /\ k \in Cuts(q, limits) /\ k < Len(q)
      /\ f = File(ChunkAt(q, limits, k))
  BY DEF IsChunk, IsLoad
<1> HIDE DEF limits
<1>2. Len(q) \in Nat /\ (\A j \in 0..(Len(q) - 1) : Cut(q, limits, j) \in (j + 1)..Len(q))
  BY <1>1, CutsGoForward
<1>3. k \in 0..(Len(q) - 1)  BY <1>1, <1>2 DEF Cuts, Reach
<1>4. Cut(q, limits, k) \in (k + 1)..Len(q)  BY <1>2, <1>3
<1>5. r \in Seq(Emitted(s)) /\ Len(r) = Len(q) - k /\ \A i \in 1..(Len(q) - k) : r[i] = q[k + i]
  <2>1. k \in 0..Len(q)  BY <1>2, <1>3
  <2> QED BY <1>1, <2>1, RestIs
<1>6. f.events = SubSeq(r, 1, n)  BY <1>1 DEF File, ChunkOf, ChunkAt
<1>7. Cut(q, limits, k) = k + n  BY DEF Cut
<1>8. n \in 1..Len(r)
  <2>1. r # <<>>  BY <1>2, <1>3, <1>5
  <2> HIDE DEF r
  <2> QED BY <1>5, <2>1, ChunkTakesSome
<1> HIDE DEF n, r
<1>9. \A e : e \in ToSet(f.events) <=> \E i \in 1..n : e = r[i]
  <2>1. r \in Seq(Emitted(s))  BY <1>5
  <2>2. \A e : e \in ToSet(SubSeq(r, 1, n)) <=> \E i \in 1..n : e = r[i]
    BY <1>8, <2>1, CutAfter
  <2> QED BY <1>6, <2>2
<1>10. \A i \in 1..n : r[i] = q[k + i] /\ k + i \in (k + 1)..(k + n)  BY <1>2, <1>3, <1>5, <1>8
<1>11. \A i \in (k + 1)..(k + n) : i - k \in 1..n /\ r[i - k] = q[i]
  <2>1. \A i \in (k + 1)..(k + n) : i - k \in 1..n /\ k + (i - k) = i  BY <1>2, <1>3, <1>5, <1>8
  <2> QED BY <2>1, <1>10
<1>12. ASSUME NEW e
       PROVE  e \in ToSet(f.events) <=> \E i \in (k + 1)..(k + n) : e = q[i]
  <2>1. ASSUME e \in ToSet(f.events) PROVE \E i \in (k + 1)..(k + n) : e = q[i]
    <3>1. PICK i \in 1..n : e = r[i]  BY <1>9, <2>1
    <3> QED BY <1>10, <3>1
  <2>2. ASSUME NEW i \in (k + 1)..(k + n), e = q[i] PROVE e \in ToSet(f.events)
    BY <1>9, <1>11, <2>2
  <2> QED BY <2>1, <2>2
<1>13. <<k, Cut(q, limits, k)>> \in CutSteps(q, limits)
  <2>1. k \in 0..Len(q) /\ Cut(q, limits, k) \in 0..Len(q)  BY <1>2, <1>3, <1>4
  <2> QED BY <1>1, <2>1 DEF CutSteps
<1> QED BY <1>1, <1>2, <1>3, <1>4, <1>7, <1>12, <1>13 DEF limits, CutOut

(* Two of them are the same or have nothing in common.                     *)
LEMMA ChunksApart ==
  ASSUME NEW s \in Sinks, available \in Nat, config \in Names,
         NEW b, NEW c, NEW q, NEW k, NEW f, IsChunk(s, b, c, q, k, f),
         NEW d, NEW e, NEW r, NEW m, NEW g, IsChunk(s, d, e, r, m, g),
         f # g
  PROVE  ToSet(f.events) \cap ToSet(g.events) = {}
<1> DEFINE limits == Now.batch[s]
<1>01. CutOut(s, q, k, f)  BY ChunkHolds
<1>02. CutOut(s, r, m, g)  BY ChunkHolds
<1>1. /\ q \in Seq(Emitted(s)) /\ Len(q) \in Nat /\ k \in 0..(Len(q) - 1)
      /\ Cut(q, limits, k) \in (k + 1)..Len(q)
      /\ <<k, Cut(q, limits, k)>> \in CutSteps(q, limits)
      /\ \A x : x \in ToSet(f.events) <=> \E i \in (k + 1)..Cut(q, limits, k) : x = q[i]
  BY <1>01 DEF CutOut
<1>2. /\ r \in Seq(Emitted(s)) /\ Len(r) \in Nat /\ m \in 0..(Len(r) - 1)
      /\ Cut(r, limits, m) \in (m + 1)..Len(r)
      /\ <<m, Cut(r, limits, m)>> \in CutSteps(r, limits)
      /\ \A x : x \in ToSet(g.events) <=> \E i \in (m + 1)..Cut(r, limits, m) : x = r[i]
  BY <1>02 DEF CutOut
<1>3. /\ <<b, c>> \in Steps /\ b \in Marks /\ <<d, e>> \in Steps /\ d \in Marks
      /\ IsLoad(s, b, c, q) /\ IsLoad(s, d, e, r)
      /\ k \in Cuts(q, limits) /\ m \in Cuts(r, limits)
      /\ f = File(ChunkAt(q, limits, k)) /\ g = File(ChunkAt(r, limits, m))
  BY DEF IsChunk
<1> HIDE DEF limits
<1>4. /\ b \in Nat /\ c \in Nat /\ d \in Nat /\ e \in Nat  BY <1>3 DEF Steps
<1>5. b < d => c <= d
  <2>1. Forward(Steps, available)  BY StepsGoForward
  <2> QED BY <1>3, <2>1, NothingLeftOut DEF Marks
<1>6. d < b => e <= b
  <2>1. Forward(Steps, available)  BY StepsGoForward
  <2> QED BY <1>3, <2>1, NothingLeftOut DEF Marks
<1>7. \A x \in ToSet(f.events) : x.lsn \in (b + 1)..c
  <2>1. \A x \in ToSet(f.events) : x \in ToSet(q)  BY <1>1, InSequence
  <2> QED BY <1>3, <2>1, EventsOfLoad
<1>8. \A x \in ToSet(g.events) : x.lsn \in (d + 1)..e
  <2>1. \A x \in ToSet(g.events) : x \in ToSet(r)  BY <1>2, InSequence
  <2> QED BY <1>3, <2>1, EventsOfLoad
<1>9. CASE b # d  BY <1>4, <1>5, <1>6, <1>7, <1>8, <1>9
<1>10. CASE b = d
  <2>1. c = e
    <3>1. Forward(Steps, available)  BY StepsGoForward
    <3>2. <<b, c>> = <<d, e>>  BY <1>3, <1>10, <3>1 DEF Forward
    <3> QED BY <3>2
  <2>2. q = r  BY <1>3, <1>10, <2>1, OneLoad
  <2>3. k # m  BY <1>3, <2>2
  <2>4. Forward(CutSteps(q, limits), Len(q))  BY <1>1, CutsGoForward
  <2>5. k < m => Cut(q, limits, k) <= m
    BY <1>1, <1>3, <2>2, <2>4, NothingLeftOut DEF Cuts
  <2>6. m < k => Cut(q, limits, m) <= k
    BY <1>1, <1>2, <1>3, <2>2, <2>4, NothingLeftOut DEF Cuts
  <2>7. \A i, j \in 1..Len(q) : q[i] = q[j] => i = j
    <3>1. \A i \in 1..Len(q) : q[i] \in Emitted(s)  BY <1>1, LenProperties
    <3>2. Sorted(q)  BY <1>3 DEF IsLoad
    <3> QED BY <1>1, <3>1, <3>2, EmittedOrder DEF Sorted
  <2>8. ASSUME NEW x, x \in ToSet(f.events), x \in ToSet(g.events) PROVE FALSE
    <3>1. PICK i \in (k + 1)..Cut(q, limits, k) : x = q[i]  BY <1>1, <2>8
    <3>2. PICK j \in (m + 1)..Cut(q, limits, m) : x = q[j]  BY <1>2, <2>2, <2>8
    <3>3. i = j
      <4>1. i \in 1..Len(q) /\ j \in 1..Len(q)  BY <1>1, <1>2, <2>2
      <4> QED BY <2>7, <3>1, <3>2, <4>1
    <3> QED BY <1>1, <1>2, <2>2, <2>3, <2>5, <2>6, <3>3
  <2> QED BY <2>8
<1> QED BY <1>9, <1>10

(***************************************************************************)
(* While neither the configuration nor the log changes: what a pass has of *)
(* its window and what is in the files are cut at those places.            *)
(***************************************************************************)
Still == changes = 0 /\ appends = 0

LoadCut(s) ==
  \E q, k :
    /\ IsLoad(s, Base, Base + Len(window), q)
    /\ k \in Cuts(q, Now.batch[s])
    /\ loads[s] = Rest(q, k)
    /\ pc \in {"idle", "collect", "store"} => k = 0
FileCut(s, f) == \E b, c, q, k : IsChunk(s, b, c, q, k, f)

PassCut ==
  /\ pc # "idle" => upto = available
  /\ checkpoint \in Marks /\ Base \in Marks
  /\ Len(window) <= WindowRecords
  /\ pc \in {"plan"} \cup InSink => <<Base, Base + Len(window)>> \in Steps
  /\ pc \in InSink => policy = Now.batch[Sink]
CutInv ==
  Still =>
    /\ PassCut
    /\ \A s \in Sinks : LoadCut(s)
    /\ \A s \in Sinks : \A f \in files[s] : FileCut(s, f)

LEMMA CutsStay ==
  ASSUME UNCHANGED <<available, config>>
  PROVE  /\ Steps' = Steps /\ Marks' = Marks /\ Now' = Now
         /\ \A s, b, c, q : IsLoad(s, b, c, q)' <=> IsLoad(s, b, c, q)
         /\ \A s, f : FileCut(s, f)' <=> FileCut(s, f)
<1>1. Now' = Now  BY DEF Now
<1>2. \A b, c : Step(b, c)' <=> Step(b, c)  BY <1>1 DEF Step, Known
<1>3. Steps' = Steps  BY <1>2 DEF Steps
<1>4. Marks' = Marks  BY <1>3 DEF Marks
<1>5. \A s, b, c, q : IsLoad(s, b, c, q)' <=> IsLoad(s, b, c, q)  BY <1>1 DEF IsLoad
<1>6. \A s, f : FileCut(s, f)' <=> FileCut(s, f)  BY <1>1, <1>3, <1>4, <1>5 DEF FileCut, IsChunk
<1> QED BY <1>1, <1>3, <1>4, <1>5, <1>6

(* What a step may do to them.                                             *)
Moves ==
  /\ appends = 0 /\ UNCHANGED available
  /\ checkpoint' \in {checkpoint, Base}
  /\ pc' # "idle" => upto' = available \/ (pc # "idle" /\ upto' = upto)
  /\ pc' = "plan" => SendWindow \/ pc \in {"plan"} \cup InSink
  /\ pc' \in InSink =>
       \/ pc = "plan" /\ policy' = Now.batch[Sink] /\ UNCHANGED loads
       \/ pc \in InSink /\ UNCHANGED <<policy, loads>>
       \/ pc \in InSink /\ UNCHANGED policy /\ ChunkDone

LEMMA HowItMoves ==
  ASSUME Inv, [Next]_vars, appends' = 0
  PROVE  Moves
<1>0. appends \in Nat /\ Todo = Todo  BY DEF Inv, Shaped, Numbers
<1> USE DEF Moves, InSink
<1>1. CASE OpenPass  BY <1>1 DEF OpenPass
<1>2. CASE Collect  BY <1>2 DEF Collect
<1>3. CASE Quarantine  BY <1>3 DEF Quarantine
<1>4. CASE SendWindow  BY <1>4 DEF SendWindow
<1>5. CASE PlanSink  BY <1>5 DEF PlanSink
<1>6. CASE RejectChunk  BY <1>6 DEF RejectChunk, FailPass, PassOver
<1>7. CASE TakeChunk
  <2>1. pc = "chunk" /\ UNCHANGED <<available, appends, checkpoint>>  BY <1>7 DEF TakeChunk
  <2>2. CASE ChunkDone  BY <1>7, <2>1, <2>2 DEF ChunkDone
  <2>3. CASE ~ChunkDone  BY <1>7, <2>1, <2>3, ChunkIsTaken
  <2> QED BY <2>2, <2>3
<1>8. CASE SendEvent
  <2>1. CASE ChunkDone  BY <1>8, <2>1 DEF SendEvent, ChunkDone
  <2>2. CASE ~ChunkDone  BY <1>8, <2>2 DEF SendEvent
  <2> QED BY <2>1, <2>2
<1>9. CASE Stat
  <2>1. CASE ChunkDone  BY <1>9, <2>1 DEF Stat, ChunkDone
  <2>2. CASE ~ChunkDone  BY <1>9, <2>2 DEF Stat
  <2> QED BY <2>1, <2>2
<1>10. CASE WriteTemp  BY <1>10 DEF WriteTemp
<1>11. CASE Rename  BY <1>11 DEF Rename, ChunkDone
<1>12. CASE Put  BY <1>12 DEF Put, ChunkDone
<1>13. CASE WindowSent  BY <1>13 DEF WindowSent
<1>14. CASE EndPass  BY <1>14 DEF EndPass
<1>15. CASE Store  BY <1>15 DEF Store, PassOver, Base
<1>16. CASE AppendRecord
  <2>1. appends' # 0  BY <1>0, <1>16 DEF AppendRecord
  <2> QED BY <2>1
<1>17. CASE Refresh  BY <1>17 DEF Refresh, pass
<1>18. CASE Crash  BY <1>18 DEF Crash, PassOver
<1>19. CASE SendEventFails  BY <1>19 DEF SendEventFails, FailPass, PassOver
<1>20. CASE StorageFails  BY <1>20 DEF StorageFails, FailPass, PassOver
<1>21. CASE StoreFails  BY <1>21 DEF StoreFails, PassOver, Base
<1>22. CASE UNCHANGED vars  BY <1>22 DEF vars, pass
<1> QED
  BY <1>1, <1>2, <1>3, <1>4, <1>5, <1>6, <1>7, <1>8, <1>9, <1>10, <1>11, <1>12, <1>13, <1>14,
     <1>15, <1>16, <1>17, <1>18, <1>19, <1>20, <1>21, <1>22 DEF Next, Replay

LEMMA StaysStill ==
  ASSUME Inv, [Next]_vars, Still'
  PROVE  /\ Still /\ UNCHANGED <<available, config>> /\ ~Refresh /\ Moves
         /\ available \in Nat /\ config \in Names
<1>1. Moves /\ appends = 0 /\ UNCHANGED available  BY HowItMoves DEF Still, Moves
<1>2. changes = 0 /\ UNCHANGED config  BY ConfigStays DEF Still
<1>3. ~Refresh  BY <1>2 DEF Refresh
<1>4. available \in Nat /\ config \in Names
  BY DeliveryAssumption DEF DeliveryAssumption, Inv, Shaped, Numbers
<1> QED BY <1>1, <1>2, <1>3, <1>4 DEF Still

LEMMA WindowIsCut ==
  ASSUME Inv, PassCut, Still, SendWindow
  PROVE  <<Base, Base + Len(window)>> \in Steps
<1>0. /\ pc = "collect" /\ window # <<>>
      /\ \/ Len(window) = WindowRecords
         \/ Handled = upto
         \/ Handled < upto /\ ~Known(Handled + 1)
  BY DEF SendWindow
<1>1. /\ Handled = Base + Len(window) /\ Base \in Nat /\ Len(window) \in Nat /\ Len(window) # 0
  BY <1>0, HandledIsEnd DEF Inv
<1>2. upto = available /\ available \in Nat /\ Base + Len(window) <= upto
  BY <1>0, DeliveryAssumption
     DEF DeliveryAssumption, PassCut, Inv, Shaped, Numbers, Windows
<1>3. \A l \in (Base + 1)..(Base + Len(window)) : Known(l)
  <2>1. \A k \in 1..Len(window) : Known(window[k].lsn) /\ window[k].lsn = Base + k
    BY DEF Inv, Shaped, Windows, OneVoice, Still
  <2>2. SUFFICES ASSUME NEW l \in (Base + 1)..(Base + Len(window)) PROVE Known(l)  OBVIOUS
  <2>3. l - Base \in 1..Len(window) /\ Base + (l - Base) = l  BY <1>1
  <2>4. window[l - Base].lsn = l  BY <2>1, <2>3
  <2> QED BY <2>1, <2>3, <2>4
<1>4. Len(window) <= WindowRecords /\ WindowRecords \in Nat
  BY DeliveryAssumption DEF DeliveryAssumption, PassCut
<1>5. (Base + Len(window)) - Base = Len(window)  BY <1>1
<1>6. Step(Base, Base + Len(window))
  <2>1. Base < Base + Len(window)  BY <1>1
  <2>2. \/ Len(window) = WindowRecords
        \/ Base + Len(window) = available
        \/ ~Known(Base + Len(window) + 1)
    BY <1>0, <1>1, <1>2
  <2> QED BY <1>3, <1>4, <1>5, <2>1, <2>2 DEF Step
<1>7. Base \in 0..available /\ Base + Len(window) \in 0..available  BY <1>1, <1>2
<1> QED BY <1>6, <1>7 DEF Steps

LEMMA NextMark ==
  ASSUME available \in Nat, Base \in Marks, NEW c, <<Base, c>> \in Steps
  PROVE  c \in Marks
<1>1. Forward(Steps, available)  BY StepsGoForward
<1> QED BY <1>1, ReachSteps DEF Marks

LEMMA PassStaysCut ==
  ASSUME Inv, [Next]_vars, CutInv, Still'
  PROVE  PassCut'
<1>0. /\ Still /\ UNCHANGED <<available, config>> /\ ~Refresh /\ Moves
      /\ available \in Nat /\ config \in Names
      /\ Steps' = Steps /\ Marks' = Marks /\ Now' = Now /\ PassCut
  BY StaysStill, CutsStay DEF CutInv
<1>00. /\ Handled = Base + Len(window) /\ Base \in Nat /\ Len(window) \in Nat
       /\ (window = <<>> <=> Len(window) = 0)
       /\ WindowRecords \in Nat
       /\ \A s \in Seq([lsn : Lsns, by : Names]) : s = <<>> => Len(s) = 0
  BY HandledIsEnd, DeliveryAssumption DEF DeliveryAssumption, Inv
<1>1. pc' # "idle" => upto' = available'  BY <1>0 DEF Moves, PassCut
<1>2. checkpoint' \in Marks  BY <1>0 DEF Moves, PassCut
<1>3. Base' \in Marks
  <2>1. CASE WindowStays \/ Collect \/ ChunkSent
    <3>1. Base' = Base  BY <2>1, CollectAdds DEF WindowStays, ChunkSent
    <3> QED BY <1>0, <3>1 DEF PassCut
  <2>2. CASE Quarantine
    <3>1. /\ pc = "collect" /\ window = <<>> /\ Handled < upto /\ ~Known(Handled + 1)
          /\ pending' = Handled + 1
      BY <2>2 DEF Quarantine
    <3>2. Handled = Base /\ upto = available  BY <1>0, <1>00, <3>1 DEF PassCut
    <3>3. Base' = Base + 1  BY <1>00, <3>1, <3>2 DEF Base
    <3>4. Step(Base, Base + 1)  BY <1>00, <3>1, <3>2 DEF Step
    <3>5. Base \in 0..available /\ Base + 1 \in 0..available  BY <1>0, <1>00, <3>1, <3>2
    <3>6. <<Base, Base + 1>> \in Steps  BY <3>4, <3>5 DEF Steps
    <3> QED BY <1>0, <3>3, <3>6, NextMark DEF PassCut
  <2>3. CASE PassEnds
    <3>1. Base' = checkpoint'  BY <2>3 DEF PassEnds, PassOver, Base
    <3> QED BY <1>2, <3>1
  <2>4. CASE WindowSent
    <3>1. pc = "plan" /\ window # <<>>  BY <2>4 DEF WindowSent, Inv, Shaped, Windows
    <3>2. pending' = Base + Len(window)  BY <1>00, <2>4, <3>1, HandledIsEnd DEF WindowSent, Inv
    <3>3. Base' = Base + Len(window)  BY <1>00, <3>1, <3>2 DEF Base
    <3>4. <<Base, Base + Len(window)>> \in Steps  BY <1>0, <3>1 DEF PassCut
    <3> QED BY <1>0, <3>3, <3>4, NextMark DEF PassCut
  <2> QED BY <1>0, <2>1, <2>2, <2>3, <2>4, StepKinds DEF Kinds7
<1>4. Len(window') <= WindowRecords
  <2>1. CASE Collect
    <3>1. Len(window') = Len(window) + 1 /\ Len(window) < WindowRecords
      BY <2>1, CollectAdds DEF Collect
    <3> QED BY <1>00, <3>1
  <2>2. CASE WindowStays \/ Quarantine \/ ChunkSent
    <3>1. window' = window  BY <2>2, ChunkLeaves DEF WindowStays, Quarantine
    <3> QED BY <1>0, <3>1 DEF PassCut
  <2>3. CASE PassEnds \/ WindowSent
    <3>1. window' = <<>>  BY <2>3 DEF PassEnds, PassOver, WindowSent
    <3> QED BY <1>00, <3>1
  <2> QED BY <1>0, <2>1, <2>2, <2>3, StepKinds DEF Kinds7
<1>5. ASSUME pc' \in {"plan"} \cup InSink PROVE <<Base', Base' + Len(window')>> \in Steps
  <2>1. CASE SendWindow
    <3>1. UNCHANGED window /\ Base' = Base  BY <2>1 DEF SendWindow, Base
    <3> QED BY <1>0, <2>1, <3>1, WindowIsCut
  <2>2. CASE ~SendWindow
    <3>1. pc \in {"plan"} \cup InSink  BY <1>0, <1>5, <2>2 DEF Moves, InSink
    <3>2. ~Collect /\ ~Quarantine /\ ~PassEnds /\ ~WindowSent
      BY <1>5, <3>1 DEF Collect, Quarantine, PassEnds, PassOver, WindowSent, InSink
    <3>3. WindowStays \/ ChunkSent  BY <1>0, <3>2, StepKinds DEF Kinds7
    <3>4. window' = window /\ Base' = Base  BY <3>3, ChunkLeaves DEF WindowStays, ChunkSent
    <3> QED BY <1>0, <3>1, <3>4 DEF PassCut
  <2> QED BY <2>1, <2>2
<1>6. ASSUME pc' \in InSink PROVE policy' = Now.batch[Sink']
  <2>1. CASE UNCHANGED loads
    <3>1. Sink' = Sink  BY <2>1 DEF Sink, Todo
    <3> QED BY <1>0, <1>6, <2>1, <3>1 DEF Moves, PassCut
  <2>2. CASE pc \in InSink /\ UNCHANGED policy /\ ChunkDone
    <3>1. pc' = "chunk"  BY <1>6, <2>2 DEF ChunkDone, InSink
    <3>2. Todo # {} /\ DOMAIN loads = Sinks  BY <2>2 DEF Inv, Shaped, Loads
    <3>3. Sink \in Sinks /\ Sink \in Todo  BY <3>2, SinkIsFirst
    <3>4. /\ loads[Sink] \in Seq(Emitted(Sink))
          /\ loads' = [loads EXCEPT ![Sink] = SubSeq(@, Len(Chunk.events) + 1, Len(@))]
          /\ Len(Chunk.events) # Len(loads[Sink])
          /\ Len(Chunk.events) \in 1..Len(loads[Sink])
      BY <2>2, <3>1, <3>2, <3>3, ChunkIsBeginning DEF ChunkDone, Inv, Shaped, Loads
    <3>5. /\ loads'[Sink] # <<>>
          /\ \A s \in Sinks : s # Sink => loads'[s] = loads[s]
      <4>1. loads'[Sink] = SubSeq(loads[Sink], Len(Chunk.events) + 1, Len(loads[Sink]))
        BY <3>2, <3>3, <3>4
      <4>2. Len(loads'[Sink]) = Len(loads[Sink]) - Len(Chunk.events)
        <5>1. PICK n \in 1..Len(loads[Sink]) : n = Len(Chunk.events)  BY <3>4
        <5>2. PICK q \in Seq(Emitted(Sink)) : q = loads[Sink]  BY <3>4
        <5>3. n \in 1..Len(q)  BY <5>1, <5>2
        <5>4. Len(SubSeq(q, n + 1, Len(q))) = Len(q) - n  BY <5>3, CutAfter
        <5> QED BY <4>1, <5>1, <5>2, <5>4
      <4>3. Len(loads[Sink]) \in Nat  BY <3>4, LenProperties
      <4>4. Len(loads'[Sink]) # 0  BY <3>4, <4>2, <4>3
      <4>5. loads'[Sink] # <<>>  BY <4>4
      <4> QED BY <3>2, <3>4, <4>5
    <3>6. Todo' = Todo  BY <3>3, <3>5 DEF Todo
    <3>7. Sink' = Sink  BY <3>6 DEF Sink
    <3> QED BY <1>0, <2>2, <3>7 DEF PassCut
  <2> QED BY <1>0, <1>6, <2>1, <2>2 DEF Moves
<1> QED BY <1>0, <1>1, <1>2, <1>3, <1>4, <1>5, <1>6 DEF PassCut

LEMMA NothingToSend ==
  ASSUME NEW s \in Sinks, NEW b \in Nat, NEW limits
  PROVE  IsLoad(s, b, b + Len(<<>>), <<>>) /\ 0 \in Cuts(<<>>, limits) /\ Rest(<<>>, 0) = <<>>
<1>1. /\ <<>> \in Seq(Emitted(s)) /\ Len(<<>>) = 0 /\ ToSet(<<>>) = {} /\ 0 \in 0..Len(<<>>)
      /\ (b + 1)..(b + 0) = {} /\ 1..0 = {}
  BY DEF ToSet
<1>2. IsLoad(s, b, b + Len(<<>>), <<>>)  BY <1>1 DEF IsLoad, Sorted
<1>3. 0 \in Cuts(<<>>, limits)  BY <1>1, CutsGoForward, ReachSteps DEF Cuts
<1>4. Rest(<<>>, 0) = <<>>  BY <1>1, RestIs
<1> QED BY <1>2, <1>3, <1>4

LEMMA RecordAdds ==
  ASSUME NEW s \in Sinks, NEW b \in Nat, NEW n \in Nat, NEW q, IsLoad(s, b, b + n, q),
         config \in Names, b + n + 1 \in Lsns
  PROVE  IsLoad(s, b, b + n + 1, q \o Now.emits[b + n + 1][s])
<1> DEFINE l == b + n + 1
           new == Now.emits[l][s]
           r == q \o new
<1>1. /\ q \in Seq(Emitted(s)) /\ Sorted(q)
      /\ \A e : e \in ToSet(q) <=>
                \E m \in (b + 1)..(b + n) : m \in Lsns /\ e \in ToSet(Now.emits[m][s])
  BY DEF IsLoad
<1>2. /\ new \in Seq(Emitted(s))
      /\ \A e \in ToSet(new) : e.lsn = l
      /\ \A i, j \in DOMAIN new : i < j => new[i].n < new[j].n
  BY EmittedEvents, DeliveryAssumption DEF DeliveryAssumption, IsConfig, Now
<1>3. \A e \in ToSet(q) : e.lsn \in (b + 1)..(b + n)  BY EventsOfLoad
<1> HIDE DEF new
<1>4. /\ r \in Seq(Emitted(s)) /\ ToSet(r) = ToSet(q) \cup ToSet(new)  BY <1>1, <1>2, InBoth
<1>5. /\ Len(q) \in Nat /\ Len(new) \in Nat /\ DOMAIN new = 1..Len(new)
      /\ \A i \in 1..Len(q) : q[i] \in ToSet(q)
      /\ \A i \in 1..Len(new) : new[i] \in ToSet(new)
  BY <1>1, <1>2, InSequence
<1>6. /\ Len(r) = Len(q) + Len(new)
      /\ \A i \in 1..(Len(q) + Len(new)) : r[i] = IF i <= Len(q) THEN q[i] ELSE new[i - Len(q)]
  BY <1>1, <1>2, ConcatProperties
<1>7. Sorted(r)
  <2>1. SUFFICES ASSUME NEW i \in 1..Len(r), NEW j \in 1..Len(r), i < j
                 PROVE  Precedes(r[i], r[j])
    BY DEF Sorted
  <2>2. CASE j <= Len(q)
    <3>1. i \in 1..Len(q) /\ j \in 1..Len(q) /\ r[i] = q[i] /\ r[j] = q[j]
      BY <1>5, <1>6, <2>1, <2>2
    <3> QED BY <1>1, <2>1, <3>1 DEF Sorted
  <2>3. CASE ~(j <= Len(q)) /\ i <= Len(q)
    <3>1. i \in 1..Len(q) /\ j - Len(q) \in 1..Len(new) /\ r[i] = q[i] /\ r[j] = new[j - Len(q)]
      BY <1>5, <1>6, <2>1, <2>3
    <3>2. r[i].lsn \in (b + 1)..(b + n) /\ r[j].lsn = l  BY <1>2, <1>3, <1>5, <3>1
    <3> QED BY <3>2 DEF Precedes
  <2>4. CASE ~(i <= Len(q))
    <3>1. /\ i - Len(q) \in 1..Len(new) /\ j - Len(q) \in 1..Len(new)
          /\ i - Len(q) < j - Len(q) /\ r[i] = new[i - Len(q)] /\ r[j] = new[j - Len(q)]
      BY <1>5, <1>6, <2>1, <2>4
    <3>2. r[i].lsn = l /\ r[j].lsn = l  BY <1>2, <1>5, <3>1
    <3>3. r[i].n < r[j].n  BY <1>2, <1>5, <3>1
    <3> QED BY <3>2, <3>3 DEF Precedes
  <2> QED BY <2>2, <2>3, <2>4
<1>8. ASSUME NEW e
      PROVE  e \in ToSet(r) <=> \E m \in (b + 1)..l : m \in Lsns /\ e \in ToSet(Now.emits[m][s])
  <2>1. (b + 1)..l = (b + 1)..(b + n) \cup {l}  OBVIOUS
  <2> QED BY <1>1, <1>4, <2>1 DEF new
<1> QED BY <1>4, <1>7, <1>8 DEF IsLoad, new

LEMMA CutGoesOn ==
  ASSUME NEW T, NEW q \in Seq(T), NEW limits, NEW k \in Cuts(q, limits), Rest(q, k) # <<>>
  PROVE  LET n == ChunkLength(Rest(q, k), limits)
         IN /\ k < Len(q) /\ k + n \in Cuts(q, limits)
            /\ SubSeq(Rest(q, k), n + 1, Len(Rest(q, k))) = Rest(q, k + n)
<1> DEFINE r == Rest(q, k)
           n == ChunkLength(r, limits)
<1>1. Len(q) \in Nat /\ Forward(CutSteps(q, limits), Len(q))  BY CutsGoForward
<1>2. k \in 0..Len(q)  BY DEF Cuts, Reach
<1>3. /\ r \in Seq(T) /\ Len(r) = Len(q) - k /\ \A i \in 1..(Len(q) - k) : r[i] = q[k + i]
  BY <1>2, RestIs
<1>4. k < Len(q)
  <2>1. Len(r) # 0  BY <1>3
  <2> QED BY <1>1, <1>2, <1>3, <2>1
<1>5. n \in 1..Len(r)
  <2> HIDE DEF r
  <2> QED BY <1>3, ChunkTakesSome DEF r
<1>6. k + n \in 0..Len(q) /\ k + n = Cut(q, limits, k)  BY <1>1, <1>2, <1>3, <1>5 DEF Cut
<1>7. <<k, k + n>> \in CutSteps(q, limits)  BY <1>2, <1>4, <1>6 DEF CutSteps
<1>8. k + n \in Cuts(q, limits)  BY <1>1, <1>7, ReachSteps DEF Cuts
<1>9. SubSeq(r, n + 1, Len(r)) = Rest(q, k + n)
  <2> HIDE DEF r, n
  <2>1. /\ SubSeq(r, n + 1, Len(r)) \in Seq(T) /\ Len(SubSeq(r, n + 1, Len(r))) = Len(r) - n
        /\ \A i \in 1..(Len(r) - n) : SubSeq(r, n + 1, Len(r))[i] = r[n + i]
    BY <1>3, <1>5, CutAfter
  <2>2. /\ Rest(q, k + n) \in Seq(T) /\ Len(Rest(q, k + n)) = Len(q) - (k + n)
        /\ \A i \in 1..(Len(q) - (k + n)) : Rest(q, k + n)[i] = q[(k + n) + i]
    BY <1>6, RestIs
  <2>3. Len(r) - n = Len(q) - (k + n)  BY <1>1, <1>2, <1>3, <1>5
  <2>4. ASSUME NEW i \in 1..(Len(r) - n)
        PROVE  SubSeq(r, n + 1, Len(r))[i] = Rest(q, k + n)[i]
    <3>1. n + i \in 1..(Len(q) - k) /\ k + (n + i) = (k + n) + i
      BY <1>1, <1>2, <1>3, <1>5, <2>3
    <3>2. r[n + i] = q[k + (n + i)]  BY <1>3, <3>1
    <3> QED BY <2>1, <2>2, <2>3, <3>1, <3>2
  <2>5. Len(SubSeq(r, n + 1, Len(r))) = Len(Rest(q, k + n))  BY <2>1, <2>2, <2>3
  <2> QED BY <2>1, <2>2, <2>4, <2>5, SeqEqual
<1> QED BY <1>4, <1>8, <1>9

LEMMA LoadStaysCut ==
  ASSUME Inv, [Next]_vars, CutInv, Still', NEW s \in Sinks
  PROVE  LoadCut(s)'
<1>0. /\ Still /\ UNCHANGED config /\ ~Refresh /\ config \in Names /\ Now' = Now
      /\ PassCut /\ LoadCut(s)
  BY StaysStill, CutsStay DEF CutInv
<1> SUFFICES \E q, k :
               /\ IsLoad(s, Base', Base' + Len(window'), q)
               /\ k \in Cuts(q, Now.batch[s])
               /\ loads'[s] = Rest(q, k)
               /\ pc' \in {"idle", "collect", "store"} => k = 0
  BY <1>0 DEF LoadCut, IsLoad
<1>00. /\ Handled = Base + Len(window) /\ Base \in Nat /\ Len(window) \in Nat /\ Base' \in Nat
  <2>1. Base' \in Nat
    <3>1. Numbers'  BY NumbersStay
    <3> QED BY <3>1, DeliveryAssumption DEF DeliveryAssumption, Numbers, Base
  <2> QED BY <2>1, HandledIsEnd DEF Inv
<1>1. PICK q, k :
        /\ IsLoad(s, Base, Base + Len(window), q)
        /\ k \in Cuts(q, Now.batch[s])
        /\ loads[s] = Rest(q, k)
        /\ pc \in {"idle", "collect", "store"} => k = 0
  BY <1>0 DEF LoadCut
<1>2. ASSUME window' = <<>>, loads'[s] = <<>>
      PROVE  \E p, i :
               /\ IsLoad(s, Base', Base' + Len(window'), p)
               /\ i \in Cuts(p, Now.batch[s])
               /\ loads'[s] = Rest(p, i)
               /\ pc' \in {"idle", "collect", "store"} => i = 0
  BY <1>00, <1>2, NothingToSend
<1>3. CASE WindowStays
  <2>1. UNCHANGED <<window, loads>> /\ Base' = Base  BY <1>3 DEF WindowStays
  <2>2. pc' \in {"idle", "collect", "store"} => pc \in {"idle", "collect", "store"}
    BY <1>3 DEF WindowStays, PcMoves, InSink
  <2> QED BY <1>1, <2>1, <2>2
<1>4. CASE Collect
  <2>1. /\ Handled + 1 \in Lsns /\ Base' = Base /\ Len(window') = Len(window) + 1
        /\ loads'[s] = loads[s] \o Now.emits[Handled + 1][s]
        /\ pc = "collect"
    BY <1>4, CollectAdds DEF Collect
  <2>2. k = 0 /\ loads[s] = q
    <3>1. k = 0  BY <1>1, <2>1
    <3>2. q \in Seq(Emitted(s)) /\ 0 \in 0..Len(q)  BY <1>1, InSequence DEF IsLoad
    <3> QED BY <1>1, <3>1, <3>2, RestIs
  <2> DEFINE r == q \o Now.emits[Handled + 1][s]
  <2>3. IsLoad(s, Base, Base + Len(window) + 1, r)
    BY <1>0, <1>00, <1>1, <2>1, RecordAdds
  <2>4. Base' + Len(window') = Base + Len(window) + 1 /\ loads'[s] = r  BY <1>00, <2>1, <2>2
  <2>5. r \in Seq(Emitted(s))  BY <2>3 DEF IsLoad
  <2> HIDE DEF r
  <2>6. Len(r) \in Nat /\ 0 \in 0..Len(r) /\ Rest(r, 0) = r
    <3>1. Len(r) \in Nat /\ 0 \in 0..Len(r)  BY <2>5, InSequence
    <3> QED BY <2>5, <3>1, RestIs
  <2>7. 0 \in Cuts(r, Now.batch[s])  BY <2>5, <2>6, CutsGoForward, ReachSteps DEF Cuts
  <2> QED BY <2>1, <2>3, <2>4, <2>6, <2>7
<1>5. CASE Quarantine \/ WindowSent
  <2>1. window' = <<>> /\ loads' = loads  BY <1>5 DEF Quarantine, WindowSent
  <2>2. loads[s] = <<>>  BY <1>5 DEF Quarantine, WindowSent, Todo, Inv, Shaped, Loads
  <2> QED BY <1>2, <2>1, <2>2
<1>6. CASE PassEnds
  <2>1. window' = <<>> /\ loads'[s] = <<>>  BY <1>6 DEF PassEnds, PassOver, NoLoads
  <2> QED BY <1>2, <2>1
<1>7. CASE ChunkSent /\ s # Sink
  <2>1. loads'[s] = loads[s] /\ window' = window /\ Base' = Base /\ pc' \in {"plan", "chunk"}
    BY <1>7, ChunkLeaves DEF ChunkSent
  <2> QED BY <1>1, <2>1
<1>8. CASE ChunkSent /\ s = Sink
  <2> DEFINE n == ChunkLength(Rest(q, k), Now.batch[s])
  <2>1. window' = window /\ Base' = Base /\ pc' \in {"plan", "chunk"} /\ pc \in InSink
    BY <1>8, ChunkLeaves DEF ChunkSent
  <2>2. loads[s] # <<>> /\ policy = Now.batch[s]
    BY <1>0, <1>8, <2>1, SinkIsFirst DEF PassCut, Inv, Shaped, Loads
  <2>3. q \in Seq(Emitted(s))  BY <1>1 DEF IsLoad
  <2>4. /\ k + n \in Cuts(q, Now.batch[s])
        /\ SubSeq(Rest(q, k), n + 1, Len(Rest(q, k))) = Rest(q, k + n)
    BY <1>1, <2>2, <2>3, CutGoesOn
  <2>5. Len(Chunk.events) = n
    <3>1. Chunk = ChunkOf(loads[s], n)  BY <1>1, <1>8, <2>2 DEF Chunk
    <3>2. Chunk.events = SubSeq(loads[s], 1, n)  BY <3>1 DEF ChunkOf
    <3>3. loads[s] \in Seq(Emitted(s))  BY DEF Inv, Shaped, Loads
    <3>4. n \in 1..Len(loads[s])  BY <1>1, <2>2, <3>3, ChunkTakesSome
    <3> HIDE DEF n
    <3> QED BY <3>2, <3>3, <3>4, CutAfter
  <2>6. loads'[s] = SubSeq(loads[s], n + 1, Len(loads[s]))
    BY <1>8, <2>5 DEF ChunkSent, ChunkDone, Inv, Shaped, Loads
  <2> HIDE DEF n
  <2> QED BY <1>1, <2>1, <2>4, <2>6
<1> QED BY <1>0, <1>3, <1>4, <1>5, <1>6, <1>7, <1>8, StepKinds DEF Kinds7

LEMMA FilesStayCut ==
  ASSUME Inv, [Next]_vars, CutInv, Still', NEW s \in Sinks, NEW f \in files'[s]
  PROVE  FileCut(s, f)
<1>0. /\ Still /\ config \in Names /\ PassCut /\ LoadCut(s)
      /\ \A g \in files[s] : FileCut(s, g)
  BY StaysStill DEF CutInv
<1>1. DOMAIN files = Sinks  BY DEF Inv, Shaped, Outside
<1>2. CASE f \in files[s]  BY <1>0, <1>2
<1>3. CASE f \notin files[s]
  <2>1. pc \in InFiles /\ s = Sink /\ f = File(Chunk)  BY <1>1, <1>3, StepKinds DEF FilesGrow
  <2>2. pc \in InSink  BY <2>1 DEF InFiles, InSink
  <2>3. loads[s] # <<>> /\ policy = Now.batch[s]
    BY <1>0, <2>1, <2>2, SinkIsFirst DEF PassCut, Inv, Shaped, Loads
  <2>4. <<Base, Base + Len(window)>> \in Steps /\ Base \in Marks  BY <1>0, <2>2 DEF PassCut
  <2>5. PICK q, k :
          /\ IsLoad(s, Base, Base + Len(window), q)
          /\ k \in Cuts(q, Now.batch[s])
          /\ loads[s] = Rest(q, k)
    BY <1>0 DEF LoadCut
  <2>6. q \in Seq(Emitted(s))  BY <2>5 DEF IsLoad
  <2>7. k < Len(q)  BY <2>3, <2>5, <2>6, CutGoesOn
  <2>8. Chunk = ChunkAt(q, Now.batch[s], k)  BY <2>1, <2>3, <2>5 DEF Chunk, ChunkAt
  <2> QED BY <2>1, <2>4, <2>5, <2>7, <2>8 DEF FileCut, IsChunk
<1> QED BY <1>2, <1>3

LEMMA InitCut == Init => CutInv
<1> SUFFICES ASSUME Init PROVE CutInv  OBVIOUS
<1>1. /\ available \in Nat /\ WindowRecords \in Nat
  BY DeliveryAssumption DEF DeliveryAssumption, Init
<1>2. /\ checkpoint = 0 /\ Base = 0 /\ pc = "idle" /\ window = <<>> /\ loads = NoLoads
      /\ files = [s \in Sinks |-> {}]
  BY DEF Init, Base
<1>3. 0 \in Marks  BY <1>1, StepsGoForward, ReachSteps DEF Marks
<1>4. Len(window) <= WindowRecords
  <2>1. Len(<<>>) = 0  OBVIOUS
  <2> QED BY <1>1, <1>2, <2>1
<1>5. PassCut  BY <1>2, <1>3, <1>4 DEF PassCut, InSink
<1>6. ASSUME NEW s \in Sinks PROVE LoadCut(s)
  <2>1. loads[s] = <<>>  BY <1>2 DEF NoLoads
  <2>2. 0 \in Nat  OBVIOUS
  <2> QED BY <1>2, <2>1, <2>2, NothingToSend DEF LoadCut
<1> QED BY <1>2, <1>5, <1>6 DEF CutInv

LEMMA CutNext == ASSUME Inv, [Next]_vars, CutInv PROVE CutInv'
<1> SUFFICES ASSUME Still'
             PROVE  /\ PassCut'
                    /\ \A s \in Sinks : LoadCut(s)'
                    /\ \A s \in Sinks : \A f \in files'[s] : FileCut(s, f)'
  BY DEF CutInv
<1>1. \A s, f : FileCut(s, f)' <=> FileCut(s, f)  BY StaysStill, CutsStay
<1> QED BY <1>1, PassStaysCut, LoadStaysCut, FilesStayCut

(* A retry of the same windows cuts the same chunks and finds their files  *)
(* (wal/replay.rs, sinks/parquet.rs): no event is in two files, while      *)
(* neither the configuration nor the log changes.                          *)
THEOREM NothingTwice == Spec => []NoFileTwice
<1>1. Init => Inv /\ CutInv  BY InitInv, InitCut
<1>2. Inv /\ CutInv /\ [Next]_vars => Inv' /\ CutInv'  BY InvNext, CutNext
<1>3. Inv /\ CutInv => NoFileTwice
  <2>1. SUFFICES ASSUME Inv, CutInv, Still,
                        NEW s \in Sinks, NEW f \in files[s], NEW g \in files[s], f # g
                 PROVE  ToSet(f.events) \cap ToSet(g.events) = {}
    BY DEF NoFileTwice, Still
  <2>2. available \in Nat /\ config \in Names
    BY <2>1, DeliveryAssumption DEF DeliveryAssumption, Inv, Shaped, Numbers
  <2>3. PICK b, c, q, k : IsChunk(s, b, c, q, k, f)  BY <2>1 DEF CutInv, FileCut
  <2>4. PICK d, e, r, m : IsChunk(s, d, e, r, m, g)  BY <2>1 DEF CutInv, FileCut
  <2> QED BY <2>1, <2>2, <2>3, <2>4, ChunksApart
<1> QED BY <1>1, <1>2, <1>3, PTL DEF Spec
=============================================================================
