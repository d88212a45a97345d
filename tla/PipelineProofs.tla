--------------------------- MODULE PipelineProofs ---------------------------
(***************************************************************************)
(* The build pipeline, for any number of producers and consumers, any      *)
(* plans and any queue: the count of unfinished tasks is exact, a build    *)
(* without an error has every leaf, verdict and digest, an error that is   *)
(* raised is the cause of the failure, and no digest is computed twice.    *)
(***************************************************************************)
EXTENDS Pipeline, FiniteSetTheorems, SequenceTheorems, TLAPS

Types == TypeOK

Holders == {c \in Consumers : cpc[c] \in Holding}

\* Where an item can be before its call: queued, in a consumer's hand, or in
\* the hand of the producer that is about to put it.
InHand(c)  == cpc[c] \in {"item", "work", "call"}
Offering(w) == ppc[w] \in {"check", "put"}
Pending(x) == \/ \E i \in 1 .. Len(queue) : queue[i] = x
              \/ \E c \in Consumers : InHand(c) /\ citem[c] = x
              \/ \E w \in Producers : Offering(w) /\ pitem[w] = x

\* An error is recorded or about to be.
Failing == \/ error # "none"
           \/ \E w \in Producers : ppc[w] = "fail"
           \/ \E c \in Consumers : cpc[c] = "fail"

\* What each thread has in hand, and why it fails.
ConsumerInv ==
    \A c \in Consumers :
        /\ InHand(c) => citem[c] \in Items
        /\ cpc[c] = "call" => citem[c].kind = "tokdig"
        /\ cpc[c] = "fail" => cerr[c] # "none"
        /\ cpc[c] = "stopping" => error # "none"
        /\ (cpc[c] = "fail" /\ cerr[c] = "cancelled")
              => cancel \/ error # "none"

Planning(w) == ppc[w] \in {"leaf", "tokens", "check", "put"}

ProducerInv ==
    \A w \in Producers :
        /\ ppc[w] = "plan" => pdone[w] <= Len(Chunk[w])
        /\ Planning(w) => pdone[w] < Len(Chunk[w])
        /\ Offering(w) => pitem[w] \in Items
        /\ ppc[w] = "fail" => cancel \/ error # "none"
        /\ ppc[w] = "stopping" => error # "none"

\* Whoever sets stop has a reason that is or will be recorded.
StopInv ==
    /\ stop => Failing
    /\ (stop /\ error = "none") => cancel
    /\ mpc = "done" => error = "none"
    /\ CauseReported

\* The producers have returned, the queue is worked off.
PhaseInv ==
    /\ mpc # "produce" => \A w \in Producers : ppc[w] = "exit"
    /\ mpc \in {"consumers", "done", "raised"} => unfinished = 0

\* What was asked for is there or is on its way.
LeafMet(p, i) == \/ <<p, i>> \in leaves
                 \/ \E x \in Items : /\ Pending(x) /\ x.kind = "leaf"
                                     /\ x.plan = p /\ x.seq = i
ValidMet(t)   == \/ t \in memoValid
                 \/ \E x \in Items : /\ Pending(x) /\ x.kind = "tokval"
                                     /\ t \in x.toks
DigestMet(t)  == \/ t \in digests
                 \/ \E x \in Items : /\ Pending(x) /\ x.kind = "tokdig"
                                     /\ t \in x.toks

LeavesMet(p, n) == \A i \in 0 .. n - 1 : LeafMet(p, i)

PlanMet(p) == /\ LeavesMet(p, Windows[p])
              /\ \A t \in PlanTokens[p] :
                    ValidMet(t) /\ t \in digests \cup submitted

\* The producer has scanned the tokens of its plan.
Scanned(w) == \/ ppc[w] = "tokens"
              \/ Offering(w) /\ pitem[w].kind # "leaf"

SubmittedMet == \A t \in submitted : DigestMet(t)

PlansMet(w) == \A k \in 1 .. Len(Chunk[w]) :
                  (k <= pdone[w] \/ ppc[w] = "exit") => PlanMet(Chunk[w][k])

PlanSoFar(w) ==
    /\ Planning(w) => LeavesMet(Plan(w), pwin[w])
    /\ Scanned(w) =>
          /\ LeavesMet(Plan(w), Windows[Plan(w)])
          /\ \A t \in PlanTokens[Plan(w)] :
                /\ t \in pval[w] \/ ValidMet(t)
                /\ t \in pdig[w] \cup digests \cup submitted

WorkInv ==
    Failing \/ (SubmittedMet /\ \A w \in Producers :
                                   PlansMet(w) /\ PlanSoFar(w))

\* The digest of a token is in one place at most.
Digest(x, t) == x.kind = "tokdig" /\ x.toks = {t}

DigestOf(t) ==
    /\ \A x \in Items : (Pending(x) /\ x.kind = "tokdig" /\ t \in x.toks)
          => x.toks = {t} /\ t \in submitted /\ digested[t] = 0
    /\ digested[t] # 0 => t \in submitted /\ digested[t] = 1
    /\ \A i, j \in 1 .. Len(queue) :
          Digest(queue[i], t) /\ Digest(queue[j], t) => i = j
    /\ \A c, d \in Consumers :
          (/\ InHand(c) /\ Digest(citem[c], t)
           /\ InHand(d) /\ Digest(citem[d], t)) => c = d
    /\ \A v, w \in Producers :
          (/\ Offering(v) /\ Digest(pitem[v], t)
           /\ Offering(w) /\ Digest(pitem[w], t)) => v = w
    /\ \A c \in Consumers : (InHand(c) /\ Digest(citem[c], t)) =>
          \A i \in 1 .. Len(queue) : ~Digest(queue[i], t)
    /\ \A w \in Producers : (Offering(w) /\ Digest(pitem[w], t)) =>
          /\ \A i \in 1 .. Len(queue) : ~Digest(queue[i], t)
          /\ \A c \in Consumers : ~(InHand(c) /\ Digest(citem[c], t))

DigestInv == \A t \in Tokens : DigestOf(t)

Inv == /\ Types /\ DrainAccounts
       /\ ConsumerInv /\ ProducerInv /\ StopInv /\ PhaseInv
       /\ WorkInv /\ DigestInv


-----------------------------------------------------------------------------

LEMMA HoldersFinite == IsFiniteSet(Holders) /\ Cardinality(Holders) \in Nat
<1>1. Holders \subseteq Consumers
  BY DEF Holders
<1>2. QED
  BY <1>1, ThreadsFinite, FS_Subset, FS_CardinalityType

\* Nothing unfinished: nothing is queued and no consumer has anything in hand.
LEMMA NothingLeft ==
  ASSUME Types, DrainAccounts, unfinished = 0
  PROVE  queue = << >> /\ \A c \in Consumers : cpc[c] \notin Holding
<1>1. unfinished = Len(queue) + Cardinality(Holders)
  BY DEF DrainAccounts, Holders
<1>2. Len(queue) \in Nat /\ Cardinality(Holders) \in Nat
  BY HoldersFinite, LenProperties DEF Types, TypeOK
<1>3. Len(queue) = 0 /\ Cardinality(Holders) = 0
  BY <1>1, <1>2
<1>4. Holders = {}
  BY <1>3, HoldersFinite, FS_EmptySet
<1>5. queue = << >>
  BY <1>3, EmptySeq DEF Types, TypeOK
<1>6. QED
  BY <1>4, <1>5 DEF Holders

LEMMA PutEffect ==
  ASSUME Types, ProducerInv, NEW w \in Producers, Put(w)
  PROVE  /\ pitem[w] \in Items
         /\ queue' \in Seq(Items) /\ Len(queue) \in Nat
         /\ Len(queue') = Len(queue) + 1 /\ Len(queue') <= QueueSize
         /\ \A i \in 1 .. Len(queue) : queue'[i] = queue[i]
         /\ queue'[Len(queue) + 1] = pitem[w]
<1>1. pitem[w] \in Items
  BY DEF Put, ProducerInv, Offering
<1>2. queue \in Seq(Items) /\ queue' = Append(queue, pitem[w])
  BY DEF Put, Types, TypeOK
<1>3. Len(queue) \in Nat /\ Len(queue) < QueueSize
  BY <1>2, LenProperties DEF Put
<1>4. /\ queue' \in Seq(Items)
      /\ Len(queue') = Len(queue) + 1
      /\ \A i \in 1 .. Len(queue) : queue'[i] = queue[i]
      /\ queue'[Len(queue) + 1] = pitem[w]
  BY <1>1, <1>2, AppendProperties
<1>5. QED
  BY <1>1, <1>3, <1>4, SizesPositive

LEMMA GetEffect ==
  ASSUME Types, NEW c \in Consumers, Get(c)
  PROVE  /\ queue' \in Seq(Items) /\ Len(queue) \in Nat \ {0}
         /\ Len(queue') = Len(queue) - 1 /\ Len(queue') <= QueueSize
         /\ \A i \in 1 .. Len(queue') : queue'[i] = queue[i + 1]
         /\ Head(queue) = queue[1] /\ Head(queue) \in Items
<1>1. queue \in Seq(Items) /\ queue # << >> /\ queue' = Tail(queue)
      /\ Len(queue) <= QueueSize
  BY DEF Get, Types, TypeOK
<1>2. Len(queue) \in Nat \ {0}
  BY <1>1, EmptySeq, LenProperties
<1>3. /\ queue' \in Seq(Items)
      /\ Len(queue') = Len(queue) - 1
      /\ \A i \in 1 .. Len(queue') : queue'[i] = queue[i + 1]
      /\ Head(queue) = queue[1] /\ Head(queue) \in Items
  BY <1>1, HeadTailProperties
<1>4. QED
  BY <1>1, <1>2, <1>3, SizesPositive


-----------------------------------------------------------------------------
(* The drain protocol.                                                     *)

LEMMA DrainStep ==
  ASSUME Types, DrainAccounts, ProducerInv, [Next]_vars
  PROVE  DrainAccounts' /\ unfinished' \in Nat
<1>a. /\ unfinished = Len(queue) + Cardinality(Holders)
      /\ Len(queue) \in Nat /\ Cardinality(Holders) \in Nat
      /\ IsFiniteSet(Holders) /\ unfinished \in Nat
  BY HoldersFinite, LenProperties DEF Types, TypeOK, DrainAccounts, Holders
<1>b. cpc \in [Consumers -> {"get", "empty", "exit"} \cup Holding]
  BY DEF Types, TypeOK
<1>c. SUFFICES unfinished' = Len(queue') + Cardinality(Holders')
               /\ unfinished' \in Nat
  BY DEF DrainAccounts, Holders
<1>1. CASE UNCHANGED <<queue, unfinished>> /\ Holders' = Holders
  BY <1>1, <1>a
<1>2. CASE UNCHANGED vars \/ Cancel \/ MainStep
  <2>1. UNCHANGED <<queue, unfinished, cpc>>
    BY <1>2 DEF vars, queueVars, consVars, Cancel, MainStep, ProducersDone,
                JoinQueue, JoinConsumers
  <2>2. QED
    BY <1>1, <2>1 DEF Holders
<1>3. ASSUME NEW w \in Producers, ProducerStep(w)
      PROVE  unfinished' = Len(queue') + Cardinality(Holders')
             /\ unfinished' \in Nat
  <2>1. Holders' = Holders
    BY <1>3 DEF Holders, consVars, ProducerStep, BeginPlan, ChunkDone,
           NextWindow, ScanTokens, NextBatch, NextToken, PlanDone,
           ProducerStops, CheckPut, Put, PutFull, ProducerRecords,
           ProducerSetsStop
  <2>2. CASE Put(w)
    BY <1>a, <2>1, <2>2, PutEffect DEF Put
  <2>3. CASE ~Put(w)
    <3>1. UNCHANGED <<queue, unfinished>>
      BY <1>3, <2>3 DEF queueVars, ProducerStep, BeginPlan, ChunkDone,
             NextWindow, ScanTokens, NextBatch, NextToken, PlanDone,
             ProducerStops, CheckPut, PutFull, ProducerRecords,
             ProducerSetsStop
    <3>2. QED
      BY <1>1, <2>1, <3>1
  <2>4. QED
    BY <2>2, <2>3
<1>4. ASSUME NEW c \in Consumers, ConsumerStep(c)
      PROVE  unfinished' = Len(queue') + Cardinality(Holders')
             /\ unfinished' \in Nat
  <2>1. CASE Get(c)
    <3>1. Holders' = Holders \cup {c} /\ c \notin Holders
      BY <2>1, <1>b DEF Get, Holders, Holding
    <3>2. Cardinality(Holders') = Cardinality(Holders) + 1
      BY <1>a, <3>1, FS_AddElement
    <3>3. QED
      BY <1>a, <2>1, <3>2, GetEffect DEF Get
  <2>2. CASE TaskDone(c)
    <3>1. Holders' = Holders \ {c} /\ c \in Holders
      BY <2>2, <1>b DEF TaskDone, Holders, Holding
    <3>2. Cardinality(Holders') = Cardinality(Holders) - 1
          /\ Cardinality(Holders') \in Nat
      BY <1>a, <3>1, FS_RemoveElement, FS_Subset, FS_CardinalityType
    <3>3. unfinished' = unfinished - 1 /\ Len(queue') = Len(queue)
      BY <2>2 DEF TaskDone
    <3>4. unfinished' = Len(queue') + Cardinality(Holders')
      BY <1>a, <3>2, <3>3
    <3>5. QED
      BY <1>a, <3>2, <3>3, <3>4
  <2>3. CASE ~(Get(c) \/ TaskDone(c))
    <3>1. UNCHANGED <<queue, unfinished>> /\ Holders' = Holders
      BY <1>4, <1>b, <2>3 DEF ConsumerStep, GetTimesOut, LeaveOrWait,
             Discard, ConsumerStops, BeginItem, LookUpDigest, DoItem,
             KernelFails, ConsumerRecords, ConsumerSetsStop, Raise, Calling,
             queueVars, Holders, Holding
    <3>2. QED
      BY <1>1, <3>1
  <2>4. QED
    BY <2>1, <2>2, <2>3
<1>5. QED
  BY <1>2, <1>3, <1>4 DEF Next


-----------------------------------------------------------------------------
(* The types.                                                              *)

LEMMA PlanIsPlan ==
  ASSUME Types, NEW w \in Producers, pdone[w] < Len(Chunk[w])
  PROVE  Plan(w) \in Plans
<1>1. pdone[w] \in Nat /\ Chunk[w] \in Seq(Plans)
  BY PlansTyped DEF Types, TypeOK
<1>2. Len(Chunk[w]) \in Nat /\ pdone[w] + 1 \in 1 .. Len(Chunk[w])
  BY <1>1, LenProperties
<1>3. QED
  BY <1>1, <1>2, ElementOfSeq DEF Plan

LEMMA TypeStep ==
  ASSUME Types, ConsumerInv, ProducerInv, unfinished' \in Nat, [Next]_vars
  PROVE  Types'
<1> USE DEF Types, TypeOK, Errors
<1>1. CASE UNCHANGED vars
  BY <1>1 DEF vars, queueVars, markVars, tableVars, prodVars, consVars,
     histVars, Holding
<1>2. CASE Cancel
  BY <1>2 DEF Cancel, queueVars, markVars, tableVars, prodVars, consVars,
     histVars, Holding
<1>3. CASE MainStep
  <2>1. CASE ProducersDone
    BY <2>1 DEF ProducersDone, queueVars, markVars, tableVars, prodVars,
       consVars, histVars, Holding
  <2>2. CASE JoinQueue
    BY <2>2 DEF JoinQueue, queueVars, markVars, tableVars, prodVars,
       consVars, histVars, Holding
  <2>3. CASE JoinConsumers
    BY <2>3 DEF JoinConsumers, queueVars, markVars, tableVars, prodVars,
       consVars, histVars, Holding
  <2>4. QED
    BY <1>3, <2>1, <2>2, <2>3 DEF MainStep
<1>4. ASSUME NEW w \in Producers, ProducerStep(w)
      PROVE  Types'
  <2>1. CASE BeginPlan(w)
    BY <2>1 DEF BeginPlan, queueVars, markVars, tableVars, prodVars,
       consVars, histVars, Holding
  <2>2. CASE ChunkDone(w)
    BY <2>2 DEF ChunkDone, Return, queueVars, markVars, tableVars, prodVars,
       consVars, histVars, Holding
  <2>3. CASE NextWindow(w)
    <3>1. [kind |-> "leaf", plan |-> Plan(w), seq |-> pwin[w], toks |-> {}]
             \in Items
      BY <2>3, PlanIsPlan DEF NextWindow, Items, ProducerInv, Planning
    <3>2. QED
      BY <2>3, <3>1 DEF NextWindow, Offer, queueVars, markVars, tableVars,
         prodVars, consVars, histVars
  <2>4. CASE ScanTokens(w)
    <3>1. PlanTokens[Plan(w)] \in SUBSET Tokens
      BY <2>4, PlanIsPlan, PlansTyped DEF ScanTokens, ProducerInv, Planning
    <3>2. QED
      BY <2>4, <3>1 DEF ScanTokens, queueVars, markVars, tableVars, prodVars,
         consVars, histVars
  <2>5. CASE NextBatch(w)
    <3> DEFINE batch == FirstOf(pval[w], BatchSize)
    <3>1. batch \subseteq Tokens
      BY DEF FirstOf
    <3>2. [kind |-> "tokval", plan |-> Plan(w), seq |-> 0, toks |-> batch]
             \in Items
      BY <2>5, <3>1, PlanIsPlan DEF NextBatch, Items, ProducerInv, Planning
    <3> HIDE DEF batch
    <3>3. /\ pitem' = [pitem EXCEPT ![w] =
               [kind |-> "tokval", plan |-> Plan(w), seq |-> 0,
                toks |-> batch]]
          /\ ppc' = [ppc EXCEPT ![w] = "check"]
          /\ pval' = [pval EXCEPT ![w] = @ \ batch]
      BY <2>5 DEF NextBatch, Offer, batch
    <3>4. QED
      BY <2>5, <3>2, <3>3 DEF NextBatch, queueVars, markVars, tableVars,
         prodVars, consVars, histVars
  <2>6. CASE NextToken(w)
    <3>1. PICK t \in FirstOf(pdig[w], 1) :
             /\ pdig' = [pdig EXCEPT ![w] = @ \ {t}]
             /\ \/ UNCHANGED <<digests, submitted, pitem, ppc>>
                \/ /\ digests' = digests \cup {t}
                   /\ UNCHANGED <<submitted, pitem, ppc>>
                \/ /\ submitted' = submitted \cup {t}
                   /\ Offer(w, [kind |-> "tokdig", plan |-> Plan(w),
                                seq |-> 0, toks |-> {t}])
                   /\ UNCHANGED digests
      BY <2>6 DEF NextToken, Claim
    <3>2. t \in Tokens
      BY <3>1 DEF FirstOf
    <3> DEFINE item == [kind |-> "tokdig", plan |-> Plan(w), seq |-> 0,
                        toks |-> {t}]
    <3>0. item \in Items
      BY <2>6, <3>2, PlanIsPlan DEF NextToken, Items, ProducerInv, Planning
    <3> HIDE DEF item
    <3>3. PICK x \in Items : x = item
      BY <3>0
    <3>a. CASE /\ submitted' = submitted \cup {t} /\ UNCHANGED digests
               /\ pitem' = [pitem EXCEPT ![w] = x]
               /\ ppc' = [ppc EXCEPT ![w] = "check"]
      <4>1. digests' \subseteq Tokens /\ submitted' \subseteq Tokens
        BY <3>2, <3>a
      <4>2. pitem' \in [Producers -> Items \cup {NoItem}]
        BY <3>a
      <4>3. ppc' \in [Producers -> {"plan", "leaf", "tokens", "check", "put",
                                    "fail", "stopping", "exit"}]
        BY <3>a
      <4>4. QED
        BY <2>6, <3>1, <4>1, <4>2, <4>3 DEF NextToken, queueVars, markVars,
           tableVars, prodVars, consVars, histVars
    <3>b. CASE /\ digests' \subseteq digests \cup {t}
               /\ UNCHANGED <<submitted, pitem, ppc>>
      BY <2>6, <3>1, <3>2, <3>b DEF NextToken, queueVars, markVars,
         tableVars, prodVars, consVars, histVars
    <3>c. \/ /\ submitted' = submitted \cup {t} /\ UNCHANGED digests
             /\ pitem' = [pitem EXCEPT ![w] = x]
             /\ ppc' = [ppc EXCEPT ![w] = "check"]
          \/ /\ digests' \subseteq digests \cup {t}
             /\ UNCHANGED <<submitted, pitem, ppc>>
      <4> HIDE DEF Types, TypeOK, Errors
      <4>1. QED
        BY <3>1, <3>3 DEF Offer, item
    <3>d. QED
      BY <3>a, <3>b, <3>c
  <2>7. CASE PlanDone(w)
    BY <2>7 DEF PlanDone, queueVars, markVars, tableVars, prodVars,
       consVars, histVars, Holding
  <2>8. CASE ProducerStops(w)
    BY <2>8 DEF ProducerStops, Return, queueVars, markVars, tableVars,
       prodVars, consVars, histVars, Holding
  <2>9. CASE CheckPut(w)
    BY <2>9 DEF CheckPut, queueVars, markVars, tableVars, prodVars,
       consVars, histVars, Holding
  <2>10. CASE Put(w)
    BY <2>10, PutEffect DEF Put, queueVars, markVars, tableVars, prodVars,
       consVars, histVars
  <2>11. CASE PutFull(w)
    BY <2>11 DEF PutFull, queueVars, markVars, tableVars, prodVars,
       consVars, histVars, Holding
  <2>12. CASE ProducerRecords(w)
    BY <2>12 DEF ProducerRecords, RecordFirst, queueVars, markVars,
       tableVars, prodVars, consVars, histVars, Holding
  <2>13. CASE ProducerSetsStop(w)
    BY <2>13 DEF ProducerSetsStop, queueVars, markVars, tableVars, prodVars,
       consVars, histVars, Holding
  <2>14. QED
    BY <1>4, <2>1, <2>2, <2>3, <2>4, <2>5, <2>6, <2>7, <2>8, <2>9, <2>10,
       <2>11, <2>12, <2>13 DEF ProducerStep
<1>5. ASSUME NEW c \in Consumers, ConsumerStep(c)
      PROVE  Types'
  <2>1. CASE Get(c)
    BY <2>1, GetEffect DEF Get, Holding, queueVars, markVars, tableVars,
       prodVars, consVars, histVars
  <2>2. CASE GetTimesOut(c)
    BY <2>2 DEF GetTimesOut, queueVars, markVars, tableVars, prodVars,
       consVars, histVars, Holding
  <2>3. CASE LeaveOrWait(c)
    BY <2>3 DEF LeaveOrWait, queueVars, markVars, tableVars, prodVars,
       consVars, histVars, Holding
  <2>4. CASE Discard(c)
    BY <2>4 DEF Discard, queueVars, markVars, tableVars, prodVars, consVars,
       histVars, Holding
  <2>5. CASE ConsumerStops(c)
    BY <2>5 DEF ConsumerStops, Raise, queueVars, markVars, tableVars,
       prodVars, consVars, histVars, Holding
  <2>6. CASE BeginItem(c)
    BY <2>6 DEF BeginItem, queueVars, markVars, tableVars, prodVars,
       consVars, histVars, Holding
  <2>7. CASE LookUpDigest(c)
    <3>1. citem[c].toks \subseteq Tokens
      BY <2>7 DEF LookUpDigest, ConsumerInv, InHand, Items
    <3>2. QED
      BY <2>7, <3>1 DEF LookUpDigest, Holding, queueVars, markVars, tableVars,
         prodVars, consVars, histVars
  <2>8. CASE DoItem(c)
    <3>1. InHand(c) /\ citem[c] \in Items
      BY <2>8 DEF DoItem, Calling, ConsumerInv, InHand
    <3>2. /\ citem[c].plan \in Plans /\ citem[c].seq \in Nat
          /\ citem[c].toks \subseteq Tokens
      BY <3>1 DEF Items
    <3>3. /\ validated' \in [Tokens -> Nat] /\ digested' \in [Tokens -> Nat]
          /\ leaves' \subseteq Plans \X Nat
          /\ digests' \subseteq Tokens
          /\ memoValid' \subseteq Tokens /\ memoDigest' \subseteq Tokens
      BY <2>8, <3>2 DEF DoItem, Count, histVars
    <3>4. QED
      BY <2>8, <3>3 DEF DoItem, Holding, queueVars, markVars, tableVars,
         prodVars, consVars, histVars
  <2>9. CASE KernelFails(c)
    BY <2>9 DEF KernelFails, Raise, Calling, queueVars, markVars, tableVars,
       prodVars, consVars, histVars, Holding
  <2>10. CASE ConsumerRecords(c)
    BY <2>10 DEF ConsumerRecords, RecordFirst, queueVars, markVars,
       tableVars, prodVars, consVars, histVars, Holding
  <2>11. CASE ConsumerSetsStop(c)
    BY <2>11 DEF ConsumerSetsStop, queueVars, markVars, tableVars, prodVars,
       consVars, histVars, Holding
  <2>12. CASE TaskDone(c)
    BY <2>12 DEF TaskDone, queueVars, markVars, tableVars, prodVars,
       consVars, histVars, Holding
  <2>13. QED
    BY <1>5, <2>1, <2>2, <2>3, <2>4, <2>5, <2>6, <2>7, <2>8, <2>9, <2>10,
       <2>11, <2>12 DEF ConsumerStep
<1>6. QED
  BY <1>1, <1>2, <1>3, <1>4, <1>5 DEF Next

-----------------------------------------------------------------------------
(* What the threads have in hand.                                          *)

LEMMA ConsumerInvStep ==
  ASSUME Types, ConsumerInv, StopInv, [Next]_vars
  PROVE  ConsumerInv'
<1>a. /\ cpc \in [Consumers -> {"get", "empty", "exit"} \cup Holding]
      /\ citem \in [Consumers -> Items \cup {NoItem}]
      /\ cerr \in [Consumers -> Errors \cup {"none"}]
  BY DEF Types, TypeOK
<1> USE <1>a DEF ConsumerInv, InHand, Errors
<1>1. CASE UNCHANGED vars
  BY <1>1 DEF vars, queueVars, markVars, tableVars, prodVars, consVars,
     histVars
<1>2. CASE Cancel
  BY <1>2 DEF Cancel, queueVars, markVars, tableVars, prodVars, consVars,
     histVars
<1>3. CASE MainStep
  <2>1. CASE ProducersDone
    BY <2>1 DEF ProducersDone, queueVars, markVars, tableVars, prodVars,
       consVars, histVars
  <2>2. CASE JoinQueue
    BY <2>2 DEF JoinQueue, queueVars, markVars, tableVars, prodVars,
       consVars, histVars
  <2>3. CASE JoinConsumers
    BY <2>3 DEF JoinConsumers, queueVars, markVars, tableVars, prodVars,
       consVars, histVars
  <2>4. QED
    BY <1>3, <2>1, <2>2, <2>3 DEF MainStep
<1>4. ASSUME NEW w \in Producers, ProducerStep(w)
      PROVE  ConsumerInv'
  <2>1. CASE BeginPlan(w)
    BY <2>1 DEF BeginPlan, queueVars, markVars, tableVars, prodVars,
       consVars, histVars
  <2>2. CASE ChunkDone(w)
    BY <2>2 DEF ChunkDone, Return, queueVars, markVars, tableVars, prodVars,
       consVars, histVars
  <2>3. CASE NextWindow(w)
    BY <2>3 DEF NextWindow, Offer, queueVars, markVars, tableVars, prodVars,
       consVars, histVars
  <2>4. CASE ScanTokens(w)
    BY <2>4 DEF ScanTokens, queueVars, markVars, tableVars, prodVars,
       consVars, histVars
  <2>5. CASE NextBatch(w)
    BY <2>5 DEF NextBatch, Offer, queueVars, markVars, tableVars, prodVars,
       consVars, histVars
  <2>6. CASE NextToken(w)
    BY <2>6 DEF NextToken, Offer, Claim, queueVars, markVars, tableVars,
       prodVars, consVars, histVars
  <2>7. CASE PlanDone(w)
    BY <2>7 DEF PlanDone, queueVars, markVars, tableVars, prodVars,
       consVars, histVars
  <2>8. CASE ProducerStops(w)
    BY <2>8 DEF ProducerStops, Return, queueVars, markVars, tableVars,
       prodVars, consVars, histVars
  <2>9. CASE CheckPut(w)
    BY <2>9 DEF CheckPut, queueVars, markVars, tableVars, prodVars,
       consVars, histVars
  <2>10. CASE Put(w)
    BY <2>10 DEF Put, queueVars, markVars, tableVars, prodVars, consVars,
       histVars
  <2>11. CASE PutFull(w)
    BY <2>11 DEF PutFull, queueVars, markVars, tableVars, prodVars,
       consVars, histVars
  <2>12. CASE ProducerRecords(w)
    BY <2>12 DEF ProducerRecords, RecordFirst, queueVars, markVars,
       tableVars, prodVars, consVars, histVars
  <2>13. CASE ProducerSetsStop(w)
    BY <2>13 DEF ProducerSetsStop, queueVars, markVars, tableVars, prodVars,
       consVars, histVars
  <2>14. QED
    BY <1>4, <2>1, <2>2, <2>3, <2>4, <2>5, <2>6, <2>7, <2>8, <2>9, <2>10,
       <2>11, <2>12, <2>13 DEF ProducerStep
<1>5. ASSUME NEW c \in Consumers, ConsumerStep(c)
      PROVE  ConsumerInv'
  <2>1. CASE Get(c)
    BY <2>1, GetEffect DEF Get, queueVars, markVars, tableVars, prodVars,
       consVars, histVars
  <2>2. CASE GetTimesOut(c)
    BY <2>2 DEF GetTimesOut, queueVars, markVars, tableVars, prodVars,
       consVars, histVars
  <2>3. CASE LeaveOrWait(c)
    BY <2>3 DEF LeaveOrWait, queueVars, markVars, tableVars, prodVars,
       consVars, histVars
  <2>4. CASE Discard(c)
    BY <2>4 DEF Discard, queueVars, markVars, tableVars, prodVars, consVars,
       histVars
  <2>5. CASE ConsumerStops(c)
    BY <2>5 DEF ConsumerStops, Raise, queueVars, markVars, tableVars,
       prodVars, consVars, histVars
  <2>6. CASE BeginItem(c)
    BY <2>6 DEF BeginItem, queueVars, markVars, tableVars, prodVars,
       consVars, histVars
  <2>7. CASE LookUpDigest(c)
    BY <2>7 DEF LookUpDigest, queueVars, markVars, tableVars, prodVars,
       consVars, histVars
  <2>8. CASE DoItem(c)
    BY <2>8 DEF DoItem, Calling, queueVars, markVars, tableVars, prodVars,
       consVars, histVars
  <2>9. CASE KernelFails(c)
    BY <2>9 DEF KernelFails, Raise, Calling, queueVars, markVars, tableVars,
       prodVars, consVars, histVars
  <2>10. CASE ConsumerRecords(c)
    BY <2>10 DEF ConsumerRecords, RecordFirst, queueVars, markVars,
       tableVars, prodVars, consVars, histVars
  <2>11. CASE ConsumerSetsStop(c)
    BY <2>11 DEF ConsumerSetsStop, queueVars, markVars, tableVars, prodVars,
       consVars, histVars
  <2>12. CASE TaskDone(c)
    BY <2>12 DEF TaskDone, queueVars, markVars, tableVars, prodVars,
       consVars, histVars
  <2>13. QED
    BY <1>5, <2>1, <2>2, <2>3, <2>4, <2>5, <2>6, <2>7, <2>8, <2>9, <2>10,
       <2>11, <2>12 DEF ConsumerStep
<1>6. QED
  BY <1>1, <1>2, <1>3, <1>4, <1>5 DEF Next


LEMMA ProducerInvStep ==
  ASSUME Types, ProducerInv, StopInv, [Next]_vars
  PROVE  ProducerInv'
<1>a. /\ ppc \in [Producers -> {"plan", "leaf", "tokens", "check", "put",
                                "fail", "stopping", "exit"}]
      /\ pdone \in [Producers -> Nat] /\ pwin \in [Producers -> Nat]
      /\ pitem \in [Producers -> Items \cup {NoItem}]
  BY DEF Types, TypeOK
<1>b. /\ pval \in [Producers -> SUBSET Tokens]
      /\ pdig \in [Producers -> SUBSET Tokens]
      /\ \A w \in Producers : Len(Chunk[w]) \in Nat
  BY PlansTyped, LenProperties DEF Types, TypeOK
<1> USE <1>a DEF ProducerInv, Planning, Offering
<1>1. CASE UNCHANGED vars
  BY <1>1 DEF vars, queueVars, markVars, tableVars, prodVars, consVars,
     histVars
<1>2. CASE Cancel
  BY <1>2 DEF Cancel, queueVars, markVars, tableVars, prodVars, consVars,
     histVars
<1>3. CASE MainStep
  <2>1. CASE ProducersDone
    BY <2>1 DEF ProducersDone, queueVars, markVars, tableVars, prodVars,
       consVars, histVars
  <2>2. CASE JoinQueue
    BY <2>2 DEF JoinQueue, queueVars, markVars, tableVars, prodVars,
       consVars, histVars
  <2>3. CASE JoinConsumers
    BY <2>3 DEF JoinConsumers, queueVars, markVars, tableVars, prodVars,
       consVars, histVars
  <2>4. QED
    BY <1>3, <2>1, <2>2, <2>3 DEF MainStep
<1>4. ASSUME NEW w \in Producers, ProducerStep(w)
      PROVE  ProducerInv'
  <2>1. CASE BeginPlan(w)
    <3>1. pdone[w] < Len(Chunk[w])
      BY <2>1 DEF BeginPlan
    <3>2. QED
      BY <2>1, <3>1 DEF BeginPlan, queueVars, markVars, tableVars, prodVars,
         consVars, histVars
  <2>2. CASE ChunkDone(w)
    BY <2>2 DEF ChunkDone, Return, queueVars, markVars, tableVars, prodVars,
       consVars, histVars
  <2>3. CASE NextWindow(w)
    <3>1. [kind |-> "leaf", plan |-> Plan(w), seq |-> pwin[w], toks |-> {}]
             \in Items
      BY <2>3, PlanIsPlan DEF NextWindow, Items
    <3>2. QED
      BY <2>3, <3>1 DEF NextWindow, Offer, queueVars, markVars, tableVars,
         prodVars, consVars, histVars
  <2>4. CASE ScanTokens(w)
    BY <2>4 DEF ScanTokens, queueVars, markVars, tableVars, prodVars, consVars,
       histVars
  <2>5. CASE NextBatch(w)
    <3> DEFINE batch == FirstOf(pval[w], BatchSize)
    <3>1. batch \subseteq Tokens
      BY <1>b DEF FirstOf
    <3>2. [kind |-> "tokval", plan |-> Plan(w), seq |-> 0, toks |-> batch]
             \in Items
      BY <2>5, <3>1, PlanIsPlan DEF NextBatch, Items
    <3> HIDE DEF batch
    <3>3. /\ pitem' = [pitem EXCEPT ![w] =
               [kind |-> "tokval", plan |-> Plan(w), seq |-> 0,
                toks |-> batch]]
          /\ ppc' = [ppc EXCEPT ![w] = "check"]
      BY <2>5 DEF NextBatch, Offer, batch
    <3>4. QED
      BY <2>5, <3>2, <3>3 DEF NextBatch, queueVars, markVars, tableVars,
         prodVars, consVars, histVars
  <2>6. CASE NextToken(w)
    <3>1. PICK t \in FirstOf(pdig[w], 1) :
             \/ UNCHANGED <<pitem, ppc>>
             \/ Offer(w, [kind |-> "tokdig", plan |-> Plan(w),
                          seq |-> 0, toks |-> {t}])
      BY <2>6 DEF NextToken
    <3>2. [kind |-> "tokdig", plan |-> Plan(w), seq |-> 0, toks |-> {t}]
             \in Items
      BY <2>6, <1>b, PlanIsPlan DEF NextToken, Items, FirstOf
    <3>3. QED
      BY <2>6, <3>1, <3>2 DEF NextToken, Offer, queueVars, markVars, tableVars,
         prodVars, consVars, histVars
  <2>7. CASE PlanDone(w)
    <3>1. pdone[w] + 1 <= Len(Chunk[w])
      BY <2>7, <1>b DEF PlanDone
    <3>2. QED
      BY <2>7, <3>1 DEF PlanDone, queueVars, markVars, tableVars, prodVars,
         consVars, histVars
  <2>8. CASE ProducerStops(w)
    <3>1. cancel \/ error # "none"
      BY <2>8 DEF ProducerStops, StopInv
    <3>2. QED
      BY <2>8, <3>1 DEF ProducerStops, Return, queueVars, markVars, tableVars,
         prodVars, consVars, histVars
  <2>9. CASE CheckPut(w)
    BY <2>9 DEF CheckPut, queueVars, markVars, tableVars, prodVars,
       consVars, histVars
  <2>10. CASE Put(w)
    BY <2>10 DEF Put, queueVars, markVars, tableVars, prodVars, consVars,
       histVars
  <2>11. CASE PutFull(w)
    BY <2>11 DEF PutFull, queueVars, markVars, tableVars, prodVars,
       consVars, histVars
  <2>12. CASE ProducerRecords(w)
    BY <2>12 DEF ProducerRecords, RecordFirst, queueVars, markVars,
       tableVars, prodVars, consVars, histVars
  <2>13. CASE ProducerSetsStop(w)
    BY <2>13 DEF ProducerSetsStop, queueVars, markVars, tableVars, prodVars,
       consVars, histVars
  <2>14. QED
    BY <1>4, <2>1, <2>2, <2>3, <2>4, <2>5, <2>6, <2>7, <2>8, <2>9, <2>10,
       <2>11, <2>12, <2>13 DEF ProducerStep
<1>5. ASSUME NEW c \in Consumers, ConsumerStep(c)
      PROVE  ProducerInv'
  <2>1. CASE Get(c)
    BY <2>1 DEF Get, queueVars, markVars, tableVars, prodVars, consVars,
       histVars
  <2>2. CASE GetTimesOut(c)
    BY <2>2 DEF GetTimesOut, queueVars, markVars, tableVars, prodVars,
       consVars, histVars
  <2>3. CASE LeaveOrWait(c)
    BY <2>3 DEF LeaveOrWait, queueVars, markVars, tableVars, prodVars,
       consVars, histVars
  <2>4. CASE Discard(c)
    BY <2>4 DEF Discard, queueVars, markVars, tableVars, prodVars, consVars,
       histVars
  <2>5. CASE ConsumerStops(c)
    BY <2>5 DEF ConsumerStops, Raise, queueVars, markVars, tableVars,
       prodVars, consVars, histVars
  <2>6. CASE BeginItem(c)
    BY <2>6 DEF BeginItem, queueVars, markVars, tableVars, prodVars,
       consVars, histVars
  <2>7. CASE LookUpDigest(c)
    BY <2>7 DEF LookUpDigest, queueVars, markVars, tableVars, prodVars,
       consVars, histVars
  <2>8. CASE DoItem(c)
    BY <2>8 DEF DoItem, Calling, queueVars, markVars, tableVars, prodVars,
       consVars, histVars
  <2>9. CASE KernelFails(c)
    BY <2>9 DEF KernelFails, Raise, Calling, queueVars, markVars, tableVars,
       prodVars, consVars, histVars
  <2>10. CASE ConsumerRecords(c)
    BY <2>10 DEF ConsumerRecords, RecordFirst, queueVars, markVars,
       tableVars, prodVars, consVars, histVars
  <2>11. CASE ConsumerSetsStop(c)
    BY <2>11 DEF ConsumerSetsStop, queueVars, markVars, tableVars, prodVars,
       consVars, histVars
  <2>12. CASE TaskDone(c)
    BY <2>12 DEF TaskDone, queueVars, markVars, tableVars, prodVars,
       consVars, histVars
  <2>13. QED
    BY <1>5, <2>1, <2>2, <2>3, <2>4, <2>5, <2>6, <2>7, <2>8, <2>9, <2>10,
       <2>11, <2>12 DEF ConsumerStep
<1>6. QED
  BY <1>1, <1>2, <1>3, <1>4, <1>5 DEF Next


-----------------------------------------------------------------------------
(* Why the threads stop.                                                   *)

LEMMA FailingStep ==
  ASSUME Types, ConsumerInv, [Next]_vars, Failing
  PROVE  Failing'
<1>a. /\ cpc \in [Consumers -> {"get", "empty", "exit"} \cup Holding]
      /\ cerr \in [Consumers -> Errors \cup {"none"}]
      /\ ppc \in [Producers -> {"plan", "leaf", "tokens", "check", "put",
                                "fail", "stopping", "exit"}]
  BY DEF Types, TypeOK
<1> USE <1>a DEF Failing
<1>1. CASE UNCHANGED vars
  BY <1>1 DEF vars, queueVars, markVars, tableVars, prodVars, consVars,
     histVars
<1>2. CASE Cancel
  BY <1>2 DEF Cancel, queueVars, markVars, tableVars, prodVars, consVars,
     histVars
<1>3. CASE MainStep
  <2>1. CASE ProducersDone
    BY <2>1 DEF ProducersDone, queueVars, markVars, tableVars, prodVars,
       consVars, histVars
  <2>2. CASE JoinQueue
    BY <2>2 DEF JoinQueue, queueVars, markVars, tableVars, prodVars,
       consVars, histVars
  <2>3. CASE JoinConsumers
    BY <2>3 DEF JoinConsumers, queueVars, markVars, tableVars, prodVars,
       consVars, histVars
  <2>4. QED
    BY <1>3, <2>1, <2>2, <2>3 DEF MainStep
<1>4. ASSUME NEW w \in Producers, ProducerStep(w)
      PROVE  Failing'
  <2>1. CASE BeginPlan(w)
    BY <2>1 DEF BeginPlan, queueVars, markVars, tableVars, prodVars,
       consVars, histVars
  <2>2. CASE ChunkDone(w)
    BY <2>2 DEF ChunkDone, Return, queueVars, markVars, tableVars, prodVars,
       consVars, histVars
  <2>3. CASE NextWindow(w)
    BY <2>3 DEF NextWindow, Offer, queueVars, markVars, tableVars, prodVars,
       consVars, histVars
  <2>4. CASE ScanTokens(w)
    BY <2>4 DEF ScanTokens, queueVars, markVars, tableVars, prodVars,
       consVars, histVars
  <2>5. CASE NextBatch(w)
    BY <2>5 DEF NextBatch, Offer, queueVars, markVars, tableVars, prodVars,
       consVars, histVars
  <2>6. CASE NextToken(w)
    BY <2>6 DEF NextToken, Offer, Claim, queueVars, markVars, tableVars,
       prodVars, consVars, histVars
  <2>7. CASE PlanDone(w)
    BY <2>7 DEF PlanDone, queueVars, markVars, tableVars, prodVars,
       consVars, histVars
  <2>8. CASE ProducerStops(w)
    BY <2>8 DEF ProducerStops, Return, queueVars, markVars, tableVars,
       prodVars, consVars, histVars
  <2>9. CASE CheckPut(w)
    BY <2>9 DEF CheckPut, queueVars, markVars, tableVars, prodVars,
       consVars, histVars
  <2>10. CASE Put(w)
    BY <2>10 DEF Put, queueVars, markVars, tableVars, prodVars, consVars,
       histVars
  <2>11. CASE PutFull(w)
    BY <2>11 DEF PutFull, queueVars, markVars, tableVars, prodVars,
       consVars, histVars
  <2>12. CASE ProducerRecords(w)
    <3>1. error' # "none"
      BY <2>12 DEF ProducerRecords, RecordFirst
    <3>2. QED
      BY <3>1
  <2>13. CASE ProducerSetsStop(w)
    BY <2>13 DEF ProducerSetsStop, queueVars, markVars, tableVars, prodVars,
       consVars, histVars
  <2>14. QED
    BY <1>4, <2>1, <2>2, <2>3, <2>4, <2>5, <2>6, <2>7, <2>8, <2>9, <2>10,
       <2>11, <2>12, <2>13 DEF ProducerStep
<1>5. ASSUME NEW c \in Consumers, ConsumerStep(c)
      PROVE  Failing'
  <2>1. CASE Get(c)
    BY <2>1 DEF Get, queueVars, markVars, tableVars, prodVars, consVars,
       histVars
  <2>2. CASE GetTimesOut(c)
    BY <2>2 DEF GetTimesOut, queueVars, markVars, tableVars, prodVars,
       consVars, histVars
  <2>3. CASE LeaveOrWait(c)
    BY <2>3 DEF LeaveOrWait, queueVars, markVars, tableVars, prodVars,
       consVars, histVars
  <2>4. CASE Discard(c)
    BY <2>4 DEF Discard, queueVars, markVars, tableVars, prodVars, consVars,
       histVars
  <2>5. CASE ConsumerStops(c)
    BY <2>5 DEF ConsumerStops, Raise, queueVars, markVars, tableVars,
       prodVars, consVars, histVars
  <2>6. CASE BeginItem(c)
    BY <2>6 DEF BeginItem, queueVars, markVars, tableVars, prodVars,
       consVars, histVars
  <2>7. CASE LookUpDigest(c)
    BY <2>7 DEF LookUpDigest, queueVars, markVars, tableVars, prodVars,
       consVars, histVars
  <2>8. CASE DoItem(c)
    BY <2>8 DEF DoItem, Calling, queueVars, markVars, tableVars, prodVars,
       consVars, histVars
  <2>9. CASE KernelFails(c)
    BY <2>9 DEF KernelFails, Raise, Calling, queueVars, markVars, tableVars,
       prodVars, consVars, histVars
  <2>10. CASE ConsumerRecords(c)
    <3>1. error' # "none"
      BY <2>10 DEF ConsumerRecords, RecordFirst, ConsumerInv
    <3>2. QED
      BY <3>1
  <2>11. CASE ConsumerSetsStop(c)
    BY <2>11 DEF ConsumerSetsStop, queueVars, markVars, tableVars, prodVars,
       consVars, histVars
  <2>12. CASE TaskDone(c)
    BY <2>12 DEF TaskDone, queueVars, markVars, tableVars, prodVars,
       consVars, histVars
  <2>13. QED
    BY <1>5, <2>1, <2>2, <2>3, <2>4, <2>5, <2>6, <2>7, <2>8, <2>9, <2>10,
       <2>11, <2>12 DEF ConsumerStep
<1>6. QED
  BY <1>1, <1>2, <1>3, <1>4, <1>5 DEF Next


LEMMA StopStep ==
  ASSUME Types, DrainAccounts, ConsumerInv, ProducerInv, StopInv, PhaseInv,
         [Next]_vars
  PROVE  StopInv'
<1>a. /\ cpc \in [Consumers -> {"get", "empty", "exit"} \cup Holding]
      /\ ppc \in [Producers -> {"plan", "leaf", "tokens", "check", "put",
                                "fail", "stopping", "exit"}]
  BY DEF Types, TypeOK
<1>b. Failing => Failing'
  BY FailingStep
<1> USE <1>b DEF StopInv, CauseReported
<1>1. CASE UNCHANGED vars
  BY <1>1 DEF vars, queueVars, markVars, tableVars, prodVars, consVars,
     histVars
<1>2. CASE Cancel
  BY <1>2 DEF Cancel, queueVars, markVars, tableVars, prodVars, consVars,
     histVars
<1>3. CASE MainStep
  <2>1. CASE ProducersDone
    BY <2>1 DEF ProducersDone, queueVars, markVars, tableVars, prodVars,
       consVars, histVars
  <2>2. CASE JoinQueue
    BY <2>2 DEF JoinQueue, queueVars, markVars, tableVars, prodVars,
       consVars, histVars
  <2>3. CASE JoinConsumers
    BY <2>3 DEF JoinConsumers, queueVars, markVars, tableVars, prodVars,
       consVars, histVars
  <2>4. QED
    BY <1>3, <2>1, <2>2, <2>3 DEF MainStep
<1>4. ASSUME NEW w \in Producers, ProducerStep(w)
      PROVE  StopInv'
  <2>1. CASE BeginPlan(w)
    BY <2>1 DEF BeginPlan, queueVars, markVars, tableVars, prodVars,
       consVars, histVars
  <2>2. CASE ChunkDone(w)
    BY <2>2 DEF ChunkDone, Return, queueVars, markVars, tableVars, prodVars,
       consVars, histVars
  <2>3. CASE NextWindow(w)
    BY <2>3 DEF NextWindow, Offer, queueVars, markVars, tableVars, prodVars,
       consVars, histVars
  <2>4. CASE ScanTokens(w)
    BY <2>4 DEF ScanTokens, queueVars, markVars, tableVars, prodVars,
       consVars, histVars
  <2>5. CASE NextBatch(w)
    BY <2>5 DEF NextBatch, Offer, queueVars, markVars, tableVars, prodVars,
       consVars, histVars
  <2>6. CASE NextToken(w)
    BY <2>6 DEF NextToken, Offer, Claim, queueVars, markVars, tableVars,
       prodVars, consVars, histVars
  <2>7. CASE PlanDone(w)
    BY <2>7 DEF PlanDone, queueVars, markVars, tableVars, prodVars,
       consVars, histVars
  <2>8. CASE ProducerStops(w)
    <3>1. Failing'
      BY <2>8, <1>a DEF ProducerStops, Return, Failing
    <3>2. QED
      BY <2>8, <3>1 DEF ProducerStops, queueVars, markVars, tableVars,
         prodVars, consVars, histVars
  <2>9. CASE CheckPut(w)
    BY <2>9 DEF CheckPut, queueVars, markVars, tableVars, prodVars,
       consVars, histVars
  <2>10. CASE Put(w)
    BY <2>10 DEF Put, queueVars, markVars, tableVars, prodVars, consVars,
       histVars
  <2>11. CASE PutFull(w)
    BY <2>11 DEF PutFull, queueVars, markVars, tableVars, prodVars,
       consVars, histVars
  <2>12. CASE ProducerRecords(w)
    <3>1. mpc = "produce"
      BY <2>12 DEF ProducerRecords, PhaseInv
    <3>2. cancel \/ error # "none"
      BY <2>12 DEF ProducerRecords, ProducerInv
    <3>3. Failing'
      BY <2>12 DEF ProducerRecords, RecordFirst, Failing
    <3>4. QED
      BY <2>12, <3>1, <3>2, <3>3 DEF ProducerRecords, RecordFirst, queueVars,
         markVars, tableVars, prodVars, consVars, histVars
  <2>13. CASE ProducerSetsStop(w)
    <3>1. error # "none"
      BY <2>13 DEF ProducerSetsStop, ProducerInv
    <3>2. QED
      BY <2>13, <3>1 DEF ProducerSetsStop, Failing, queueVars, markVars,
         tableVars, prodVars, consVars, histVars
  <2>14. QED
    BY <1>4, <2>1, <2>2, <2>3, <2>4, <2>5, <2>6, <2>7, <2>8, <2>9, <2>10,
       <2>11, <2>12, <2>13 DEF ProducerStep
<1>5. ASSUME NEW c \in Consumers, ConsumerStep(c)
      PROVE  StopInv'
  <2>1. CASE Get(c)
    BY <2>1 DEF Get, queueVars, markVars, tableVars, prodVars, consVars,
       histVars
  <2>2. CASE GetTimesOut(c)
    BY <2>2 DEF GetTimesOut, queueVars, markVars, tableVars, prodVars,
       consVars, histVars
  <2>3. CASE LeaveOrWait(c)
    BY <2>3 DEF LeaveOrWait, queueVars, markVars, tableVars, prodVars,
       consVars, histVars
  <2>4. CASE Discard(c)
    BY <2>4 DEF Discard, queueVars, markVars, tableVars, prodVars, consVars,
       histVars
  <2>5. CASE ConsumerStops(c)
    <3>1. Failing'
      BY <2>5, <1>a DEF ConsumerStops, Raise, Failing
    <3>2. QED
      BY <2>5, <3>1 DEF ConsumerStops, queueVars, markVars, tableVars,
         prodVars, consVars, histVars
  <2>6. CASE BeginItem(c)
    BY <2>6 DEF BeginItem, queueVars, markVars, tableVars, prodVars,
       consVars, histVars
  <2>7. CASE LookUpDigest(c)
    BY <2>7 DEF LookUpDigest, queueVars, markVars, tableVars, prodVars,
       consVars, histVars
  <2>8. CASE DoItem(c)
    BY <2>8 DEF DoItem, Calling, queueVars, markVars, tableVars, prodVars,
       consVars, histVars
  <2>9. CASE KernelFails(c)
    BY <2>9 DEF KernelFails, Raise, Calling, queueVars, markVars, tableVars,
       prodVars, consVars, histVars
  <2>10. CASE ConsumerRecords(c)
    <3>1. mpc # "done"
      <4>1. cpc[c] \in Holding
        BY <2>10 DEF ConsumerRecords, Holding
      <4>2. QED
        BY <4>1, NothingLeft DEF PhaseInv
    <3>2. /\ cerr[c] # "none"
          /\ cerr[c] = "cancelled" => cancel \/ error # "none"
      BY <2>10 DEF ConsumerRecords, ConsumerInv
    <3>3. Failing'
      BY <2>10, <3>2 DEF ConsumerRecords, RecordFirst, Failing
    <3>4. QED
      BY <2>10, <3>1, <3>2, <3>3 DEF ConsumerRecords, RecordFirst, queueVars,
         markVars, tableVars, prodVars, consVars, histVars
  <2>11. CASE ConsumerSetsStop(c)
    <3>1. error # "none"
      BY <2>11 DEF ConsumerSetsStop, ConsumerInv
    <3>2. QED
      BY <2>11, <3>1 DEF ConsumerSetsStop, Failing, queueVars, markVars,
         tableVars, prodVars, consVars, histVars
  <2>12. CASE TaskDone(c)
    BY <2>12 DEF TaskDone, queueVars, markVars, tableVars, prodVars,
       consVars, histVars
  <2>13. QED
    BY <1>5, <2>1, <2>2, <2>3, <2>4, <2>5, <2>6, <2>7, <2>8, <2>9, <2>10,
       <2>11, <2>12 DEF ConsumerStep
<1>6. QED
  BY <1>1, <1>2, <1>3, <1>4, <1>5 DEF Next


-----------------------------------------------------------------------------
(* The caller.                                                             *)

LEMMA PhaseStep ==
  ASSUME Types, DrainAccounts, PhaseInv, [Next]_vars
  PROVE  PhaseInv'
<1>a. ppc \in [Producers -> {"plan", "leaf", "tokens", "check", "put",
                             "fail", "stopping", "exit"}]
  BY DEF Types, TypeOK
<1> USE <1>a DEF PhaseInv
<1>1. CASE UNCHANGED vars
  BY <1>1 DEF vars, queueVars, markVars, tableVars, prodVars, consVars,
     histVars
<1>2. CASE Cancel
  BY <1>2 DEF Cancel, queueVars, markVars, tableVars, prodVars, consVars,
     histVars
<1>3. CASE MainStep
  <2>1. CASE ProducersDone
    BY <2>1 DEF ProducersDone, queueVars, markVars, tableVars, prodVars,
       consVars, histVars
  <2>2. CASE JoinQueue
    BY <2>2 DEF JoinQueue, queueVars, markVars, tableVars, prodVars,
       consVars, histVars
  <2>3. CASE JoinConsumers
    BY <2>3 DEF JoinConsumers, queueVars, markVars, tableVars, prodVars,
       consVars, histVars
  <2>4. QED
    BY <1>3, <2>1, <2>2, <2>3 DEF MainStep
<1>4. ASSUME NEW w \in Producers, ProducerStep(w)
      PROVE  PhaseInv'
  <2>1. CASE BeginPlan(w)
    BY <2>1 DEF BeginPlan, queueVars, markVars, tableVars, prodVars, consVars,
       histVars
  <2>2. CASE ChunkDone(w)
    BY <2>2 DEF ChunkDone, Return, queueVars, markVars, tableVars, prodVars,
       consVars, histVars
  <2>3. CASE NextWindow(w)
    BY <2>3 DEF NextWindow, Offer, queueVars, markVars, tableVars, prodVars,
       consVars, histVars
  <2>4. CASE ScanTokens(w)
    BY <2>4 DEF ScanTokens, queueVars, markVars, tableVars, prodVars, consVars,
       histVars
  <2>5. CASE NextBatch(w)
    BY <2>5 DEF NextBatch, Offer, queueVars, markVars, tableVars, prodVars,
       consVars, histVars
  <2>6. CASE NextToken(w)
    BY <2>6 DEF NextToken, Offer, Claim, queueVars, markVars, tableVars,
       prodVars, consVars, histVars
  <2>7. CASE PlanDone(w)
    BY <2>7 DEF PlanDone, queueVars, markVars, tableVars, prodVars, consVars,
       histVars
  <2>8. CASE ProducerStops(w)
    BY <2>8 DEF ProducerStops, Return, queueVars, markVars, tableVars,
       prodVars, consVars, histVars
  <2>9. CASE CheckPut(w)
    BY <2>9 DEF CheckPut, queueVars, markVars, tableVars, prodVars, consVars,
       histVars
  <2>10. CASE Put(w)
    <3>1. mpc = "produce"
      BY <2>10 DEF Put
    <3>2. QED
      BY <2>10, <3>1 DEF Put, queueVars, markVars, tableVars, prodVars,
         consVars, histVars
  <2>11. CASE PutFull(w)
    BY <2>11 DEF PutFull, queueVars, markVars, tableVars, prodVars, consVars,
       histVars
  <2>12. CASE ProducerRecords(w)
    BY <2>12 DEF ProducerRecords, queueVars, markVars, tableVars, prodVars,
       consVars, histVars
  <2>13. CASE ProducerSetsStop(w)
    BY <2>13 DEF ProducerSetsStop, queueVars, markVars, tableVars, prodVars,
       consVars, histVars
  <2>14. QED
    BY <1>4, <2>1, <2>2, <2>3, <2>4, <2>5, <2>6, <2>7, <2>8, <2>9, <2>10,
       <2>11, <2>12, <2>13 DEF ProducerStep
<1>5. ASSUME NEW c \in Consumers, ConsumerStep(c)
      PROVE  PhaseInv'
  <2>1. CASE Get(c)
    BY <2>1 DEF Get, queueVars, markVars, tableVars, prodVars, consVars,
       histVars
  <2>2. CASE GetTimesOut(c)
    BY <2>2 DEF GetTimesOut, queueVars, markVars, tableVars, prodVars,
       consVars, histVars
  <2>3. CASE LeaveOrWait(c)
    BY <2>3 DEF LeaveOrWait, queueVars, markVars, tableVars, prodVars,
       consVars, histVars
  <2>4. CASE Discard(c)
    BY <2>4 DEF Discard, queueVars, markVars, tableVars, prodVars, consVars,
       histVars
  <2>5. CASE ConsumerStops(c)
    BY <2>5 DEF ConsumerStops, Raise, queueVars, markVars, tableVars,
       prodVars, consVars, histVars
  <2>6. CASE BeginItem(c)
    BY <2>6 DEF BeginItem, queueVars, markVars, tableVars, prodVars,
       consVars, histVars
  <2>7. CASE LookUpDigest(c)
    BY <2>7 DEF LookUpDigest, queueVars, markVars, tableVars, prodVars,
       consVars, histVars
  <2>8. CASE DoItem(c)
    BY <2>8 DEF DoItem, Calling, queueVars, markVars, tableVars, prodVars,
       consVars, histVars
  <2>9. CASE KernelFails(c)
    BY <2>9 DEF KernelFails, Raise, Calling, queueVars, markVars, tableVars,
       prodVars, consVars, histVars
  <2>10. CASE ConsumerRecords(c)
    BY <2>10 DEF ConsumerRecords, RecordFirst, queueVars, markVars,
       tableVars, prodVars, consVars, histVars
  <2>11. CASE ConsumerSetsStop(c)
    BY <2>11 DEF ConsumerSetsStop, queueVars, markVars, tableVars, prodVars,
       consVars, histVars
  <2>12. CASE TaskDone(c)
    <3>1. mpc \notin {"consumers", "done", "raised"}
      <4>1. cpc[c] \in Holding
        BY <2>12 DEF TaskDone, Holding
      <4>2. QED
        BY <4>1, NothingLeft
    <3>2. QED
      BY <2>12, <3>1 DEF TaskDone, queueVars, markVars, tableVars, prodVars,
         consVars, histVars
  <2>13. QED
    BY <1>5, <2>1, <2>2, <2>3, <2>4, <2>5, <2>6, <2>7, <2>8, <2>9, <2>10,
       <2>11, <2>12 DEF ConsumerStep
<1>6. QED
  BY <1>1, <1>2, <1>3, <1>4, <1>5 DEF Next

-----------------------------------------------------------------------------
(* No item is lost without an error.                                       *)

\* The call of the item has been made, and its result is in the tables.
Achieved(x) == /\ x.kind = "leaf" => <<x.plan, x.seq>> \in leaves
               /\ x.kind = "tokval" => x.toks \subseteq memoValid
               /\ x.kind = "tokdig" => x.toks \subseteq digests

LEMMA PendingStep ==
  ASSUME Types, ConsumerInv, ProducerInv, StopInv, [Next]_vars,
         NEW x \in Items, Pending(x)
  PROVE  Pending(x)' \/ Achieved(x)' \/ Failing'
<1>a. /\ cpc \in [Consumers -> {"get", "empty", "exit"} \cup Holding]
      /\ ppc \in [Producers -> {"plan", "leaf", "tokens", "check", "put",
                                "fail", "stopping", "exit"}]
      /\ pitem \in [Producers -> Items \cup {NoItem}]
      /\ citem \in [Consumers -> Items \cup {NoItem}]
  BY DEF Types, TypeOK
<1> USE <1>a DEF Pending
<1>1. CASE UNCHANGED vars
  BY <1>1 DEF vars, Offering, InHand, queueVars, markVars, tableVars,
     prodVars, consVars, histVars
<1>2. CASE Cancel
  BY <1>2 DEF Cancel, Offering, InHand, queueVars, markVars, tableVars,
     prodVars, consVars, histVars
<1>3. CASE MainStep
  <2>1. CASE ProducersDone
    BY <2>1 DEF ProducersDone, Offering, InHand, queueVars, markVars,
       tableVars, prodVars, consVars, histVars
  <2>2. CASE JoinQueue
    BY <2>2 DEF JoinQueue, Offering, InHand, queueVars, markVars, tableVars,
       prodVars, consVars, histVars
  <2>3. CASE JoinConsumers
    BY <2>3 DEF JoinConsumers, Offering, InHand, queueVars, markVars,
       tableVars, prodVars, consVars, histVars
  <2>4. QED
    BY <1>3, <2>1, <2>2, <2>3 DEF MainStep
<1>4. ASSUME NEW w \in Producers, ProducerStep(w)
      PROVE  Pending(x)' \/ Achieved(x)' \/ Failing'
  <2>1. CASE BeginPlan(w)
    <3>1. \A v \in Producers :
             Offering(v) => Offering(v)' /\ pitem'[v] = pitem[v]
      BY <2>1 DEF BeginPlan, Offering
    <3>2. QED
      BY <2>1, <3>1 DEF BeginPlan, InHand, queueVars, consVars
  <2>2. CASE ChunkDone(w)
    <3>1. \A v \in Producers :
             Offering(v) => Offering(v)' /\ pitem'[v] = pitem[v]
      BY <2>2 DEF ChunkDone, Return, Offering
    <3>2. QED
      BY <2>2, <3>1 DEF ChunkDone, Return, InHand, queueVars, consVars
  <2>3. CASE NextWindow(w)
    <3>1. \A v \in Producers :
             Offering(v) => Offering(v)' /\ pitem'[v] = pitem[v]
      BY <2>3 DEF NextWindow, Offer, Offering
    <3>2. QED
      BY <2>3, <3>1 DEF NextWindow, Offer, InHand, queueVars, consVars
  <2>4. CASE ScanTokens(w)
    <3>1. \A v \in Producers :
             Offering(v) => Offering(v)' /\ pitem'[v] = pitem[v]
      BY <2>4 DEF ScanTokens, Offering
    <3>2. QED
      BY <2>4, <3>1 DEF ScanTokens, InHand, queueVars, consVars
  <2>5. CASE NextBatch(w)
    <3>1. \A v \in Producers :
             Offering(v) => Offering(v)' /\ pitem'[v] = pitem[v]
      BY <2>5 DEF NextBatch, Offer, Offering
    <3>2. QED
      BY <2>5, <3>1 DEF NextBatch, Offer, InHand, queueVars, consVars
  <2>6. CASE NextToken(w)
    <3>1. \A v \in Producers :
             Offering(v) => Offering(v)' /\ pitem'[v] = pitem[v]
      BY <2>6 DEF NextToken, Offer, Claim, Offering
    <3>2. QED
      BY <2>6, <3>1 DEF NextToken, Offer, Claim, InHand, queueVars, consVars
  <2>7. CASE PlanDone(w)
    <3>1. \A v \in Producers :
             Offering(v) => Offering(v)' /\ pitem'[v] = pitem[v]
      BY <2>7 DEF PlanDone, Offering
    <3>2. QED
      BY <2>7, <3>1 DEF PlanDone, InHand, queueVars, consVars
  <2>8. CASE ProducerStops(w)
    <3>1. Failing'
      BY <2>8, <1>a DEF ProducerStops, Return, Failing
    <3>2. QED
      BY <3>1
  <2>9. CASE CheckPut(w)
    <3>1. \A v \in Producers :
             Offering(v) => Offering(v)' /\ pitem'[v] = pitem[v]
      BY <2>9 DEF CheckPut, Offering
    <3>2. QED
      BY <2>9, <3>1 DEF CheckPut, InHand, queueVars, consVars
  <2>10. CASE Put(w)
    <3>1. /\ Len(queue') = Len(queue) + 1 /\ Len(queue) \in Nat
          /\ \A i \in 1 .. Len(queue) : queue'[i] = queue[i]
          /\ queue'[Len(queue) + 1] = pitem[w]
      BY <2>10, PutEffect
    <3>2. CASE \E i \in 1 .. Len(queue) : queue[i] = x
      BY <3>1, <3>2
    <3>3. CASE \E c \in Consumers : InHand(c) /\ citem[c] = x
      BY <2>10, <3>3 DEF Put, InHand, consVars
    <3>4. CASE \E v \in Producers : Offering(v) /\ pitem[v] = x
      <4>1. PICK v \in Producers : Offering(v) /\ pitem[v] = x
        BY <3>4
      <4>2. CASE v = w
        <5>1. Len(queue) + 1 \in 1 .. Len(queue')
          BY <3>1
        <5>2. QED
          BY <3>1, <4>1, <4>2, <5>1
      <4>3. CASE v # w
        BY <2>10, <4>1, <4>3 DEF Put, Offering
      <4>4. QED
        BY <4>2, <4>3
    <3>5. QED
      BY <3>2, <3>3, <3>4 DEF Pending
  <2>11. CASE PutFull(w)
    <3>1. \A v \in Producers :
             Offering(v) => Offering(v)' /\ pitem'[v] = pitem[v]
      BY <2>11 DEF PutFull, Offering
    <3>2. QED
      BY <2>11, <3>1 DEF PutFull, InHand, queueVars, consVars
  <2>12. CASE ProducerRecords(w)
    <3>1. \A v \in Producers :
             Offering(v) => Offering(v)' /\ pitem'[v] = pitem[v]
      BY <2>12 DEF ProducerRecords, Offering
    <3>2. QED
      BY <2>12, <3>1 DEF ProducerRecords, InHand, queueVars, consVars
  <2>13. CASE ProducerSetsStop(w)
    <3>1. \A v \in Producers :
             Offering(v) => Offering(v)' /\ pitem'[v] = pitem[v]
      BY <2>13 DEF ProducerSetsStop, Offering
    <3>2. QED
      BY <2>13, <3>1 DEF ProducerSetsStop, InHand, queueVars, consVars
  <2>14. QED
    BY <1>4, <2>1, <2>2, <2>3, <2>4, <2>5, <2>6, <2>7, <2>8, <2>9, <2>10,
       <2>11, <2>12, <2>13 DEF ProducerStep
<1>5. ASSUME NEW c \in Consumers, ConsumerStep(c)
      PROVE  Pending(x)' \/ Achieved(x)' \/ Failing'
  <2>1. CASE Get(c)
    <3>1. /\ Len(queue') = Len(queue) - 1 /\ Len(queue) \in Nat \ {0}
          /\ \A i \in 1 .. Len(queue') : queue'[i] = queue[i + 1]
          /\ Head(queue) = queue[1]
      BY <2>1, GetEffect
    <3>2. CASE \E i \in 1 .. Len(queue) : queue[i] = x
      <4>1. PICK i \in 1 .. Len(queue) : queue[i] = x
        BY <3>2
      <4>2. CASE i = 1
        BY <2>1, <3>1, <4>1, <4>2 DEF Get, InHand
      <4>3. CASE i # 1
        <5>1. i - 1 \in 1 .. Len(queue') /\ (i - 1) + 1 = i
          BY <3>1, <4>3
        <5>2. queue'[i - 1] = x
          BY <3>1, <4>1, <5>1
        <5>3. QED
          BY <5>1, <5>2
      <4>4. QED
        BY <4>2, <4>3
    <3>3. CASE \E d \in Consumers : InHand(d) /\ citem[d] = x
      BY <2>1, <3>3 DEF Get, InHand
    <3>4. CASE \E v \in Producers : Offering(v) /\ pitem[v] = x
      BY <2>1, <3>4 DEF Get, Offering, prodVars
    <3>5. QED
      BY <3>2, <3>3, <3>4 DEF Pending
  <2>2. CASE GetTimesOut(c)
    <3>1. \A d \in Consumers : InHand(d) => InHand(d)' /\ citem'[d] = citem[d]
      BY <2>2 DEF GetTimesOut, InHand
    <3>2. QED
      BY <2>2, <3>1 DEF GetTimesOut, Offering, queueVars, prodVars
  <2>3. CASE LeaveOrWait(c)
    <3>1. \A d \in Consumers : InHand(d) => InHand(d)' /\ citem'[d] = citem[d]
      BY <2>3 DEF LeaveOrWait, InHand
    <3>2. QED
      BY <2>3, <3>1 DEF LeaveOrWait, Offering, queueVars, prodVars
  <2>4. CASE Discard(c)
    <3>1. Failing
      BY <2>4 DEF Discard, StopInv
    <3>2. QED
      BY <3>1, FailingStep
  <2>5. CASE ConsumerStops(c)
    <3>1. Failing'
      BY <2>5, <1>a DEF ConsumerStops, Raise, Failing
    <3>2. QED
      BY <3>1
  <2>6. CASE BeginItem(c)
    <3>1. \A d \in Consumers : InHand(d) => InHand(d)' /\ citem'[d] = citem[d]
      BY <2>6 DEF BeginItem, InHand
    <3>2. QED
      BY <2>6, <3>1 DEF BeginItem, Offering, queueVars, prodVars
  <2>7. CASE LookUpDigest(c)
    <3>1. CASE x = citem[c] /\ citem[c].toks \subseteq memoDigest
      BY <2>7, <3>1 DEF LookUpDigest, Achieved
    <3>2. CASE citem[c].toks \subseteq memoDigest /\ x # citem[c]
      <4>1. \A d \in Consumers : (InHand(d) /\ citem[d] = x) =>
               InHand(d)' /\ citem'[d] = citem[d]
        BY <2>7, <3>2 DEF LookUpDigest, InHand
      <4>2. QED
        BY <2>7, <4>1 DEF LookUpDigest, Offering, queueVars, prodVars
    <3>3. CASE ~(citem[c].toks \subseteq memoDigest)
      <4>1. \A d \in Consumers :
               InHand(d) => InHand(d)' /\ citem'[d] = citem[d]
        BY <2>7, <3>3 DEF LookUpDigest, InHand
      <4>2. QED
        BY <2>7, <4>1 DEF LookUpDigest, Offering, queueVars, prodVars
    <3>4. QED
      BY <3>1, <3>2, <3>3
  <2>8. CASE DoItem(c)
    <3>1. CASE x = citem[c]
      <4>1. Achieved(x)'
        BY <2>8, <3>1 DEF DoItem, Achieved, Items
      <4>2. QED
        BY <4>1
    <3>2. CASE x # citem[c]
      <4>1. \A d \in Consumers : (InHand(d) /\ citem[d] = x) =>
               InHand(d)' /\ citem'[d] = citem[d]
        BY <2>8, <3>2 DEF DoItem, Calling, InHand
      <4>2. QED
        BY <2>8, <4>1 DEF DoItem, Calling, Offering, queueVars, prodVars
    <3>3. QED
      BY <3>1, <3>2
  <2>9. CASE KernelFails(c)
    <3>1. Failing'
      BY <2>9, <1>a DEF KernelFails, Raise, Failing
    <3>2. QED
      BY <3>1
  <2>10. CASE ConsumerRecords(c)
    <3>1. \A d \in Consumers : InHand(d) => InHand(d)' /\ citem'[d] = citem[d]
      BY <2>10 DEF ConsumerRecords, InHand
    <3>2. QED
      BY <2>10, <3>1 DEF ConsumerRecords, Offering, queueVars, prodVars
  <2>11. CASE ConsumerSetsStop(c)
    <3>1. \A d \in Consumers : InHand(d) => InHand(d)' /\ citem'[d] = citem[d]
      BY <2>11 DEF ConsumerSetsStop, InHand
    <3>2. QED
      BY <2>11, <3>1 DEF ConsumerSetsStop, Offering, queueVars, prodVars
  <2>12. CASE TaskDone(c)
    <3>1. \A d \in Consumers : InHand(d) => InHand(d)' /\ citem'[d] = citem[d]
      BY <2>12 DEF TaskDone, InHand
    <3>2. QED
      BY <2>12, <3>1 DEF TaskDone, Offering, queueVars, prodVars
  <2>13. QED
    BY <1>5, <2>1, <2>2, <2>3, <2>4, <2>5, <2>6, <2>7, <2>8, <2>9, <2>10,
       <2>11, <2>12 DEF ConsumerStep
<1>6. QED
  BY <1>1, <1>2, <1>3, <1>4, <1>5 DEF Next


LEMMA TablesStep ==
  ASSUME [Next]_vars
  PROVE  /\ leaves \subseteq leaves' /\ digests \subseteq digests'
         /\ memoValid \subseteq memoValid' /\ submitted \subseteq submitted'
<1> DEFINE Grow == /\ leaves \subseteq leaves' /\ digests \subseteq digests'
                   /\ memoValid \subseteq memoValid'
                   /\ submitted \subseteq submitted'
<1>0. SUFFICES Grow
  OBVIOUS
<1>1. CASE UNCHANGED vars
  BY <1>1 DEF vars, queueVars, markVars, tableVars, prodVars, consVars,
     histVars
<1>2. CASE Cancel
  BY <1>2 DEF Cancel, queueVars, markVars, tableVars, prodVars, consVars,
     histVars
<1>3. CASE MainStep
  <2>1. CASE ProducersDone
    BY <2>1 DEF ProducersDone, queueVars, markVars, tableVars, prodVars,
       consVars, histVars
  <2>2. CASE JoinQueue
    BY <2>2 DEF JoinQueue, queueVars, markVars, tableVars, prodVars,
       consVars, histVars
  <2>3. CASE JoinConsumers
    BY <2>3 DEF JoinConsumers, queueVars, markVars, tableVars, prodVars,
       consVars, histVars
  <2>4. QED
    BY <1>3, <2>1, <2>2, <2>3 DEF MainStep
<1>4. ASSUME NEW w \in Producers, ProducerStep(w)
      PROVE  Grow
  <2>1. CASE BeginPlan(w)
    BY <2>1 DEF BeginPlan, queueVars, markVars, tableVars, prodVars,
       consVars, histVars
  <2>2. CASE ChunkDone(w)
    BY <2>2 DEF ChunkDone, Return, queueVars, markVars, tableVars, prodVars,
       consVars, histVars
  <2>3. CASE NextWindow(w)
    BY <2>3 DEF NextWindow, Offer, queueVars, markVars, tableVars, prodVars,
       consVars, histVars
  <2>4. CASE ScanTokens(w)
    BY <2>4 DEF ScanTokens, queueVars, markVars, tableVars, prodVars,
       consVars, histVars
  <2>5. CASE NextBatch(w)
    BY <2>5 DEF NextBatch, Offer, queueVars, markVars, tableVars, prodVars,
       consVars, histVars
  <2>6. CASE NextToken(w)
    BY <2>6 DEF NextToken, Offer, Claim, queueVars, markVars, tableVars,
       prodVars, consVars, histVars
  <2>7. CASE PlanDone(w)
    BY <2>7 DEF PlanDone, queueVars, markVars, tableVars, prodVars,
       consVars, histVars
  <2>8. CASE ProducerStops(w)
    BY <2>8 DEF ProducerStops, Return, queueVars, markVars, tableVars,
       prodVars, consVars, histVars
  <2>9. CASE CheckPut(w)
    BY <2>9 DEF CheckPut, queueVars, markVars, tableVars, prodVars,
       consVars, histVars
  <2>10. CASE Put(w)
    BY <2>10 DEF Put, queueVars, markVars, tableVars, prodVars, consVars,
       histVars
  <2>11. CASE PutFull(w)
    BY <2>11 DEF PutFull, queueVars, markVars, tableVars, prodVars,
       consVars, histVars
  <2>12. CASE ProducerRecords(w)
    BY <2>12 DEF ProducerRecords, RecordFirst, queueVars, markVars,
       tableVars, prodVars, consVars, histVars
  <2>13. CASE ProducerSetsStop(w)
    BY <2>13 DEF ProducerSetsStop, queueVars, markVars, tableVars, prodVars,
       consVars, histVars
  <2>14. QED
    BY <1>4, <2>1, <2>2, <2>3, <2>4, <2>5, <2>6, <2>7, <2>8, <2>9, <2>10,
       <2>11, <2>12, <2>13 DEF ProducerStep
<1>5. ASSUME NEW c \in Consumers, ConsumerStep(c)
      PROVE  Grow
  <2>1. CASE Get(c)
    BY <2>1 DEF Get, queueVars, markVars, tableVars, prodVars, consVars,
       histVars
  <2>2. CASE GetTimesOut(c)
    BY <2>2 DEF GetTimesOut, queueVars, markVars, tableVars, prodVars,
       consVars, histVars
  <2>3. CASE LeaveOrWait(c)
    BY <2>3 DEF LeaveOrWait, queueVars, markVars, tableVars, prodVars,
       consVars, histVars
  <2>4. CASE Discard(c)
    BY <2>4 DEF Discard, queueVars, markVars, tableVars, prodVars, consVars,
       histVars
  <2>5. CASE ConsumerStops(c)
    BY <2>5 DEF ConsumerStops, Raise, queueVars, markVars, tableVars,
       prodVars, consVars, histVars
  <2>6. CASE BeginItem(c)
    BY <2>6 DEF BeginItem, queueVars, markVars, tableVars, prodVars,
       consVars, histVars
  <2>7. CASE LookUpDigest(c)
    BY <2>7 DEF LookUpDigest, queueVars, markVars, tableVars, prodVars,
       consVars, histVars
  <2>8. CASE DoItem(c)
    BY <2>8 DEF DoItem, Calling, queueVars, markVars, tableVars, prodVars,
       consVars, histVars
  <2>9. CASE KernelFails(c)
    BY <2>9 DEF KernelFails, Raise, Calling, queueVars, markVars, tableVars,
       prodVars, consVars, histVars
  <2>10. CASE ConsumerRecords(c)
    BY <2>10 DEF ConsumerRecords, RecordFirst, queueVars, markVars,
       tableVars, prodVars, consVars, histVars
  <2>11. CASE ConsumerSetsStop(c)
    BY <2>11 DEF ConsumerSetsStop, queueVars, markVars, tableVars, prodVars,
       consVars, histVars
  <2>12. CASE TaskDone(c)
    BY <2>12 DEF TaskDone, queueVars, markVars, tableVars, prodVars,
       consVars, histVars
  <2>13. QED
    BY <1>5, <2>1, <2>2, <2>3, <2>4, <2>5, <2>6, <2>7, <2>8, <2>9, <2>10,
       <2>11, <2>12 DEF ConsumerStep
<1>6. QED
  BY <1>1, <1>2, <1>3, <1>4, <1>5 DEF Next


\* What is met stays met as long as nothing fails.
LEMMA MetStep ==
  ASSUME Types, ConsumerInv, ProducerInv, StopInv, [Next]_vars, ~Failing'
  PROVE  /\ \A p, i : LeafMet(p, i) => LeafMet(p, i)'
         /\ \A t : ValidMet(t) => ValidMet(t)'
         /\ \A t : DigestMet(t) => DigestMet(t)'
         /\ \A p : PlanMet(p) => PlanMet(p)'
         /\ \A p, n : LeavesMet(p, n) => LeavesMet(p, n)'
<1>a. /\ leaves \subseteq leaves' /\ digests \subseteq digests'
      /\ memoValid \subseteq memoValid' /\ submitted \subseteq submitted'
  BY TablesStep
<1>b. \A x \in Items : Pending(x) => Pending(x)' \/ Achieved(x)'
  BY PendingStep
<1>1. ASSUME NEW p, NEW i, LeafMet(p, i)
      PROVE  LeafMet(p, i)'
  <2>1. CASE <<p, i>> \in leaves
    BY <1>a, <2>1 DEF LeafMet
  <2>2. CASE <<p, i>> \notin leaves
    <3>1. PICK x \in Items : /\ Pending(x) /\ x.kind = "leaf"
                             /\ x.plan = p /\ x.seq = i
      BY <1>1, <2>2 DEF LeafMet
    <3>2. QED
      BY <1>b, <3>1 DEF LeafMet, Achieved
  <2>3. QED
    BY <2>1, <2>2
<1>2. ASSUME NEW t, ValidMet(t)
      PROVE  ValidMet(t)'
  <2>1. CASE t \in memoValid
    BY <1>a, <2>1 DEF ValidMet
  <2>2. CASE t \notin memoValid
    <3>1. PICK x \in Items : /\ Pending(x) /\ x.kind = "tokval"
                             /\ t \in x.toks
      BY <1>2, <2>2 DEF ValidMet
    <3>2. QED
      BY <1>b, <3>1 DEF ValidMet, Achieved
  <2>3. QED
    BY <2>1, <2>2
<1>3. ASSUME NEW t, DigestMet(t)
      PROVE  DigestMet(t)'
  <2>1. CASE t \in digests
    BY <1>a, <2>1 DEF DigestMet
  <2>2. CASE t \notin digests
    <3>1. PICK x \in Items : /\ Pending(x) /\ x.kind = "tokdig"
                             /\ t \in x.toks
      BY <1>3, <2>2 DEF DigestMet
    <3>2. QED
      BY <1>b, <3>1 DEF DigestMet, Achieved
  <2>3. QED
    BY <2>1, <2>2
<1>4. \A p, n : LeavesMet(p, n) => LeavesMet(p, n)'
  BY <1>1 DEF LeavesMet
<1>5. \A p : PlanMet(p) => PlanMet(p)'
  BY <1>a, <1>2, <1>4 DEF PlanMet
<1>6. QED
  BY <1>1, <1>2, <1>3, <1>4, <1>5

\* A producer's step leaves the other producers as they are.
LEMMA OnlyOwn ==
  ASSUME Types, NEW w \in Producers, ProducerStep(w),
         NEW v \in Producers, v # w
  PROVE  /\ ppc'[v] = ppc[v] /\ pdone'[v] = pdone[v] /\ pwin'[v] = pwin[v]
         /\ pval'[v] = pval[v] /\ pdig'[v] = pdig[v] /\ pitem'[v] = pitem[v]
<1>a. /\ ppc \in [Producers -> {"plan", "leaf", "tokens", "check", "put",
                                "fail", "stopping", "exit"}]
      /\ pdone \in [Producers -> Nat] /\ pwin \in [Producers -> Nat]
      /\ pval \in [Producers -> SUBSET Tokens]
      /\ pdig \in [Producers -> SUBSET Tokens]
      /\ pitem \in [Producers -> Items \cup {NoItem}]
  BY DEF Types, TypeOK
<1> USE <1>a
<1>1. CASE BeginPlan(w)
  BY <1>1 DEF BeginPlan
<1>2. CASE ChunkDone(w)
  BY <1>2 DEF ChunkDone, Return
<1>3. CASE NextWindow(w)
  BY <1>3 DEF NextWindow, Offer
<1>4. CASE ScanTokens(w)
  BY <1>4 DEF ScanTokens
<1>5. CASE NextBatch(w)
  BY <1>5 DEF NextBatch, Offer
<1>6. CASE NextToken(w)
  BY <1>6 DEF NextToken, Offer
<1>7. CASE PlanDone(w)
  BY <1>7 DEF PlanDone
<1>8. CASE ProducerStops(w)
  BY <1>8 DEF ProducerStops, Return
<1>9. CASE CheckPut(w)
  BY <1>9 DEF CheckPut
<1>10. CASE Put(w)
  BY <1>10 DEF Put
<1>11. CASE PutFull(w)
  BY <1>11 DEF PutFull
<1>12. CASE ProducerRecords(w)
  BY <1>12 DEF ProducerRecords
<1>13. CASE ProducerSetsStop(w)
  BY <1>13 DEF ProducerSetsStop
<1>14. QED
  BY <1>1, <1>2, <1>3, <1>4, <1>5, <1>6, <1>7, <1>8, <1>9, <1>10, <1>11,
     <1>12, <1>13 DEF ProducerStep

LEMMA FrameMet ==
  ASSUME Types, ConsumerInv, ProducerInv, StopInv, [Next]_vars, ~Failing',
         NEW v \in Producers, PlansMet(v), PlanSoFar(v),
         ppc'[v] = ppc[v], pdone'[v] = pdone[v], pwin'[v] = pwin[v],
         pval'[v] = pval[v], pdig'[v] = pdig[v], pitem'[v] = pitem[v]
  PROVE  PlansMet(v)' /\ PlanSoFar(v)'
<1>1. PlansMet(v)'
  BY MetStep DEF PlansMet
<1>2. /\ Planning(v)' <=> Planning(v)
      /\ Scanned(v)' <=> Scanned(v)
      /\ Plan(v)' = Plan(v)
  BY DEF Planning, Scanned, Offering, Plan
<1>3. digests \subseteq digests' /\ submitted \subseteq submitted'
  BY TablesStep
<1>4. PlanSoFar(v)'
  BY <1>2, <1>3, MetStep DEF PlanSoFar
<1>5. QED
  BY <1>1, <1>4

LEMMA WorkByProducer ==
  ASSUME Types, ConsumerInv, ProducerInv, StopInv, WorkInv, [Next]_vars,
         ~Failing', NEW w \in Producers, ProducerStep(w)
  PROVE  /\ \A t \in submitted' : DigestMet(t)'
         /\ PlansMet(w)' /\ PlanSoFar(w)'
<1>a. /\ ppc \in [Producers -> {"plan", "leaf", "tokens", "check", "put",
                                "fail", "stopping", "exit"}]
      /\ pdone \in [Producers -> Nat] /\ pwin \in [Producers -> Nat]
      /\ pval \in [Producers -> SUBSET Tokens]
      /\ pdig \in [Producers -> SUBSET Tokens]
      /\ pitem \in [Producers -> Items \cup {NoItem}]
      /\ pdone[w] \in Nat /\ pwin[w] \in Nat
  BY DEF Types, TypeOK
<1>b. ~Failing
  BY FailingStep
<1>c. /\ SubmittedMet
      /\ \A k \in 1 .. Len(Chunk[w]) :
            (k <= pdone[w] \/ ppc[w] = "exit") => PlanMet(Chunk[w][k])
      /\ Planning(w) => LeavesMet(Plan(w), pwin[w])
      /\ Scanned(w) =>
            /\ LeavesMet(Plan(w), Windows[Plan(w)])
            /\ \A t \in PlanTokens[Plan(w)] :
                  /\ t \in pval[w] \/ ValidMet(t)
                  /\ t \in pdig[w] \cup digests \cup submitted
  BY <1>b DEF WorkInv, PlansMet, PlanSoFar
<1>d. /\ \A p, i : LeafMet(p, i) => LeafMet(p, i)'
      /\ \A t : ValidMet(t) => ValidMet(t)'
      /\ \A t : DigestMet(t) => DigestMet(t)'
      /\ \A p : PlanMet(p) => PlanMet(p)'
      /\ \A p, n : LeavesMet(p, n) => LeavesMet(p, n)'
      /\ digests \subseteq digests' /\ submitted \subseteq submitted'
  BY MetStep, TablesStep
<1>e. submitted' = submitted => \A t \in submitted' : DigestMet(t)'
  BY <1>c, <1>d DEF SubmittedMet
<1>f. UNCHANGED pdone => Plan(w)' = Plan(w)
  BY DEF Plan
<1>1. CASE BeginPlan(w)
  <2>1. LeavesMet(Plan(w), 0)'
    BY DEF LeavesMet
  <2>2. pwin'[w] = 0 /\ ppc'[w] = "leaf"
    BY <1>1, <1>a DEF BeginPlan
  <2>3. QED
    BY <1>1, <1>a, <1>c, <1>d, <1>e, <1>f, <2>1, <2>2
       DEF BeginPlan, tableVars, PlansMet, PlanSoFar, Scanned, Offering
<1>2. CASE ChunkDone(w)
  <2>1. ppc'[w] = "exit" /\ pdone[w] = Len(Chunk[w])
    BY <1>2, <1>a DEF ChunkDone, Return
  <2>2. \A k \in 1 .. Len(Chunk[w]) : PlanMet(Chunk[w][k])'
    BY <1>c, <1>d, <2>1
  <2>3. QED
    BY <1>2, <1>e, <2>1, <2>2 DEF ChunkDone, tableVars, PlansMet, PlanSoFar,
       Planning, Scanned, Offering
<1>3. CASE NextWindow(w)
  <2>1. pdone[w] < Len(Chunk[w]) /\ Planning(w)
    BY <1>3 DEF NextWindow, ProducerInv, Planning
  <2>2. PICK p, n : p = Plan(w) /\ n = pwin[w]
    OBVIOUS
  <2>3. PICK x \in Items : x = [kind |-> "leaf", plan |-> Plan(w),
                                seq |-> pwin[w], toks |-> {}]
    BY <1>a, <2>1, PlanIsPlan DEF Items
  <2>4. /\ pitem'[w] = x /\ ppc'[w] = "check" /\ pwin'[w] = n + 1
        /\ UNCHANGED <<pdone, submitted>> /\ n \in Nat /\ x.kind = "leaf"
        /\ x.plan = p /\ x.seq = n
    BY <1>3, <1>a, <2>2, <2>3 DEF NextWindow, Offer, tableVars
  <2>5. Pending(x)'
    BY <2>4 DEF Pending, Offering
  <2>6. LeafMet(p, n)'
    BY <2>4, <2>5 DEF LeafMet
  <2>7. LeavesMet(p, n)'
    BY <1>c, <1>d, <2>1, <2>2
  <2>8. LeavesMet(p, n + 1)'
    BY <2>4, <2>6, <2>7 DEF LeavesMet
  <2>9. LeavesMet(Plan(w), pwin[w])'
    BY <1>f, <2>2, <2>4, <2>8 DEF LeavesMet
  <2>10. PlansMet(w)'
    BY <1>c, <1>d, <2>4 DEF PlansMet
  <2>11. ~Scanned(w)'
    BY <2>4 DEF Scanned, Offering
  <2>12. QED
    BY <1>e, <2>4, <2>9, <2>10, <2>11 DEF PlanSoFar
<1>4. CASE ScanTokens(w)
  <2>1. /\ ppc'[w] = "tokens" /\ pwin'[w] = pwin[w]
        /\ pwin[w] = Windows[Plan(w)] /\ Planning(w)
        /\ pval'[w] = PlanTokens[Plan(w)] \ memoValid
        /\ pdig'[w] = PlanTokens[Plan(w)]
        /\ memoValid' = memoValid
    BY <1>4, <1>a DEF ScanTokens, Planning, tableVars
  <2>2. \A t \in PlanTokens[Plan(w)] : t \in pval'[w] \/ ValidMet(t)'
    BY <2>1 DEF ValidMet
  <2>3. QED
    BY <1>4, <1>a, <1>c, <1>d, <1>e, <1>f, <2>1, <2>2
       DEF ScanTokens, tableVars, PlansMet, PlanSoFar
<1>5. CASE NextBatch(w)
  <2>1. pdone[w] < Len(Chunk[w]) /\ Planning(w) /\ Scanned(w)
    BY <1>5 DEF NextBatch, ProducerInv, Planning, Scanned
  <2>a. PICK batch \in SUBSET Tokens : batch = FirstOf(pval[w], BatchSize)
    BY <1>a DEF FirstOf
  <2>2. PICK x \in Items : x = [kind |-> "tokval", plan |-> Plan(w),
                                seq |-> 0, toks |-> batch]
    BY <1>a, <2>1, PlanIsPlan DEF Items
  <2>3. /\ pitem'[w] = x /\ ppc'[w] = "check"
        /\ pval'[w] = pval[w] \ batch /\ pdig' = pdig
        /\ x.kind = "tokval" /\ x.toks = batch
    BY <1>5, <1>a, <2>a, <2>2 DEF NextBatch, Offer
  <2>4. Pending(x)'
    BY <2>3 DEF Pending, Offering
  <2>5. \A t \in batch : ValidMet(t)'
    BY <2>3, <2>4 DEF ValidMet
  <2>6. \A t \in PlanTokens[Plan(w)] : t \in pval'[w] \/ ValidMet(t)'
    BY <1>c, <1>d, <2>1, <2>3, <2>5
  <2>7. QED
    BY <1>5, <1>a, <1>c, <1>d, <1>e, <1>f, <2>1, <2>3, <2>6
       DEF NextBatch, tableVars, PlansMet, PlanSoFar
<1>6. CASE NextToken(w)
  <2>1. PICK t \in FirstOf(pdig[w], 1) :
           /\ pdig' = [pdig EXCEPT ![w] = @ \ {t}]
           /\ \/ /\ t \in digests \cup submitted
                 /\ UNCHANGED <<digests, submitted, pitem, ppc>>
              \/ /\ digests' = digests \cup {t}
                 /\ UNCHANGED <<submitted, pitem, ppc>>
              \/ /\ submitted' = submitted \cup {t}
                 /\ Offer(w, [kind |-> "tokdig", plan |-> Plan(w),
                              seq |-> 0, toks |-> {t}])
    BY <1>6 DEF NextToken, Claim
  <2>2. pdone[w] < Len(Chunk[w]) /\ Planning(w) /\ Scanned(w)
        /\ ppc[w] = "tokens"
    BY <1>6 DEF NextToken, ProducerInv, Planning, Scanned
  <2>3. PICK x \in Items : x = [kind |-> "tokdig", plan |-> Plan(w),
                                seq |-> 0, toks |-> {t}]
    BY <1>a, <2>2, PlanIsPlan DEF Items, FirstOf
  <2>4. t \in digests' \cup submitted' /\ pdig'[w] = pdig[w] \ {t}
    BY <1>a, <2>1
  <2>5. \A u \in PlanTokens[Plan(w)] :
           u \in pdig'[w] \cup digests' \cup submitted'
    BY <1>c, <1>d, <2>2, <2>4
  <2>6. Scanned(w)' /\ pval' = pval /\ pwin' = pwin
    BY <1>6, <1>a, <2>1, <2>2 DEF NextToken, Scanned, Offering, Offer
  <2>7. ASSUME NEW u \in submitted' PROVE DigestMet(u)'
    <3>1. CASE u \in submitted
      BY <1>c, <1>d, <3>1 DEF SubmittedMet
    <3>2. CASE u \notin submitted
      <4>1. u = t /\ pitem'[w] = x /\ ppc'[w] = "check"
        BY <1>a, <2>1, <2>3, <2>7, <3>2 DEF Offer
      <4>2. Pending(x)'
        BY <4>1 DEF Pending, Offering
      <4>3. QED
        BY <2>3, <4>1, <4>2 DEF DigestMet
    <3>3. QED
      BY <3>1, <3>2
  <2>8. ppc'[w] # "exit" /\ UNCHANGED pdone
    BY <1>6, <1>a, <2>1, <2>2 DEF NextToken, Offer
  <2>9. PlansMet(w)'
    BY <1>c, <1>d, <2>8 DEF PlansMet
  <2>10. PlanSoFar(w)'
    BY <1>c, <1>d, <1>f, <2>2, <2>5, <2>6, <2>8 DEF PlanSoFar
  <2>11. QED
    BY <2>7, <2>9, <2>10
<1>7. CASE PlanDone(w)
  <2>1. /\ Scanned(w) /\ pdone'[w] = pdone[w] + 1 /\ ppc'[w] = "plan"
        /\ pval[w] = {} /\ pdig[w] = {} /\ ppc[w] = "tokens"
    BY <1>7, <1>a DEF PlanDone, Scanned
  <2>2. PlanMet(Chunk[w][pdone[w] + 1])
    BY <1>c, <2>1 DEF PlanMet, Plan
  <2>3. \A k \in 1 .. Len(Chunk[w]) : k <= pdone[w] + 1 => PlanMet(Chunk[w][k])'
    BY <1>a, <1>c, <1>d, <2>1, <2>2
  <2>4. QED
    BY <1>7, <1>e, <2>1, <2>3 DEF PlanDone, tableVars, PlansMet, PlanSoFar,
       Planning, Scanned, Offering
<1>8. CASE ProducerStops(w)
  BY <1>8, <1>a DEF ProducerStops, Return, Failing
<1>9. CASE CheckPut(w)
  <2>1. /\ Planning(w) /\ (Scanned(w)' => Scanned(w)) /\ ppc'[w] = "put"
    BY <1>9, <1>a DEF CheckPut, Planning, Scanned, Offering
  <2>2. QED
    BY <1>9, <1>a, <1>c, <1>d, <1>e, <1>f, <2>1
       DEF CheckPut, tableVars, PlansMet, PlanSoFar
<1>10. CASE Put(w)
  <2>1. /\ Planning(w) /\ (Scanned(w)' => Scanned(w))
        /\ ppc'[w] \in {"leaf", "tokens"}
    BY <1>10, <1>a DEF Put, Planning, Scanned, Offering
  <2>2. QED
    BY <1>10, <1>a, <1>c, <1>d, <1>e, <1>f, <2>1
       DEF Put, tableVars, PlansMet, PlanSoFar
<1>11. CASE PutFull(w)
  <2>1. /\ Planning(w) /\ (Scanned(w)' => Scanned(w)) /\ ppc'[w] = "check"
    BY <1>11, <1>a DEF PutFull, Planning, Scanned, Offering
  <2>2. QED
    BY <1>11, <1>a, <1>c, <1>d, <1>e, <1>f, <2>1
       DEF PutFull, tableVars, PlansMet, PlanSoFar
<1>12. CASE ProducerRecords(w)
  BY <1>12, <1>b DEF ProducerRecords, Failing
<1>13. CASE ProducerSetsStop(w)
  BY <1>13, <1>b DEF ProducerSetsStop, ProducerInv, Failing
<1>14. QED
  BY <1>1, <1>2, <1>3, <1>4, <1>5, <1>6, <1>7, <1>8, <1>9, <1>10, <1>11,
     <1>12, <1>13 DEF ProducerStep

LEMMA WorkStep ==
  ASSUME Types, ConsumerInv, ProducerInv, StopInv, WorkInv, [Next]_vars
  PROVE  WorkInv'
<1>1. SUFFICES ASSUME ~Failing' PROVE WorkInv'
  BY DEF WorkInv
<1>2. /\ SubmittedMet
      /\ \A v \in Producers : PlansMet(v) /\ PlanSoFar(v)
  BY <1>1, FailingStep DEF WorkInv
<1>3. ASSUME NEW w \in Producers, ProducerStep(w)
      PROVE  WorkInv'
  <2>1. /\ \A t \in submitted' : DigestMet(t)'
        /\ PlansMet(w)' /\ PlanSoFar(w)'
    BY <1>1, <1>3, WorkByProducer
  <2>2. ASSUME NEW v \in Producers, v # w
        PROVE  PlansMet(v)' /\ PlanSoFar(v)'
    <3>1. /\ ppc'[v] = ppc[v] /\ pdone'[v] = pdone[v] /\ pwin'[v] = pwin[v]
          /\ pval'[v] = pval[v] /\ pdig'[v] = pdig[v] /\ pitem'[v] = pitem[v]
      BY <1>3, <2>2, OnlyOwn
    <3>2. QED
      BY <1>1, <1>2, <3>1, FrameMet
  <2>3. QED
    BY <2>1, <2>2 DEF WorkInv, SubmittedMet
<1>4. CASE UNCHANGED vars \/ Cancel \/ MainStep
           \/ \E c \in Consumers : ConsumerStep(c)
  <2>1. UNCHANGED prodVars /\ UNCHANGED submitted
    BY <1>4 DEF vars, tableVars, Cancel, MainStep, ProducersDone, JoinQueue,
       JoinConsumers, ConsumerStep, Get, GetTimesOut, LeaveOrWait, Discard,
       ConsumerStops, BeginItem, LookUpDigest, DoItem, KernelFails,
       ConsumerRecords, ConsumerSetsStop, TaskDone
  <2>2. \A v \in Producers : PlansMet(v)' /\ PlanSoFar(v)'
    BY <1>1, <1>2, <2>1, FrameMet DEF prodVars
  <2>3. \A t \in submitted' : DigestMet(t)'
    BY <1>1, <1>2, <2>1, MetStep DEF SubmittedMet
  <2>4. QED
    BY <2>2, <2>3 DEF WorkInv, SubmittedMet
<1>5. QED
  BY <1>3, <1>4 DEF Next
\* No digest appears anywhere: nothing moves but out of sight.
LEMMA DigestFrame ==
  ASSUME NEW t \in Tokens, DigestOf(t), queue' = queue, digested' = digested,
         submitted \subseteq submitted',
         \A c \in Consumers : InHand(c)' =>
             InHand(c) /\ citem'[c] = citem[c],
         \A w \in Producers : Offering(w)' =>
             \/ Offering(w) /\ pitem'[w] = pitem[w]
             \/ pitem'[w].kind # "tokdig"
  PROVE  DigestOf(t)'
<1>1. \A x \in Items : Pending(x)' /\ x.kind = "tokdig" => Pending(x)
  BY DEF Pending
<1>2. \A x \in Items : (Pending(x)' /\ x.kind = "tokdig" /\ t \in x.toks)
        => x.toks = {t} /\ t \in submitted' /\ digested'[t] = 0
  BY <1>1 DEF DigestOf
<1>3. /\ digested'[t] # 0 => t \in submitted' /\ digested'[t] = 1
      /\ \A i, j \in 1 .. Len(queue') :
            Digest(queue'[i], t) /\ Digest(queue'[j], t) => i = j
  BY DEF DigestOf
<1>4. \A c, d \in Consumers :
        (/\ InHand(c)' /\ Digest(citem'[c], t)
         /\ InHand(d)' /\ Digest(citem'[d], t)) => c = d
  BY DEF DigestOf
<1>5. \A v, w \in Producers :
        (/\ Offering(v)' /\ Digest(pitem'[v], t)
         /\ Offering(w)' /\ Digest(pitem'[w], t)) => v = w
  BY DEF DigestOf, Digest
<1>6. \A c \in Consumers : (InHand(c)' /\ Digest(citem'[c], t)) =>
        \A i \in 1 .. Len(queue') : ~Digest(queue'[i], t)
  BY DEF DigestOf
<1>7. \A w \in Producers : (Offering(w)' /\ Digest(pitem'[w], t)) =>
        /\ \A i \in 1 .. Len(queue') : ~Digest(queue'[i], t)
        /\ \A c \in Consumers : ~(InHand(c)' /\ Digest(citem'[c], t))
  BY DEF DigestOf, Digest
<1>8. QED
  BY <1>2, <1>3, <1>4, <1>5, <1>6, <1>7 DEF DigestOf, Digest

\* A producer that claims a token is the first to have its digest.
LEMMA DigestClaimed ==
  ASSUME Types, ConsumerInv, ProducerInv,
         NEW t \in Tokens, DigestOf(t), NEW w \in Producers,
         NEW u \in Tokens, u \notin submitted, submitted' = submitted \cup {u},
         queue' = queue, digested' = digested, cpc' = cpc, citem' = citem,
         \A v \in Producers : v # w =>
             (Offering(v)' <=> Offering(v)) /\ pitem'[v] = pitem[v],
         pitem'[w] \in Items, pitem'[w].kind = "tokdig",
         pitem'[w].toks = {u}
  PROVE  DigestOf(t)'
<1>a. \A c : InHand(c)' <=> InHand(c)
  BY DEF InHand
<1>b. queue \in Seq(Items)
  BY DEF Types, TypeOK
<1>c. \A i \in 1 .. Len(queue) : queue[i] \in Items
  BY <1>b
<1>1. CASE t # u
  <2>1. ~Digest(pitem'[w], t) /\ t \notin pitem'[w].toks
    BY <1>1 DEF Digest
  <2>2. \A x \in Items : Pending(x)' /\ t \in x.toks => Pending(x)
    BY <1>a, <2>1 DEF Pending
  <2>3. QED
    BY <1>1, <1>a, <2>1, <2>2, Zenon DEF DigestOf
<1>2. CASE t = u
  <2>1. \A x \in Items : Pending(x) => ~(x.kind = "tokdig" /\ t \in x.toks)
    BY <1>2 DEF DigestOf
  <2>2. /\ \A i \in 1 .. Len(queue) : ~Digest(queue[i], t)
        /\ \A c \in Consumers : InHand(c) => ~Digest(citem[c], t)
        /\ \A v \in Producers : Offering(v) => ~Digest(pitem[v], t)
    BY <1>c, <2>1 DEF Pending, Digest, ConsumerInv, ProducerInv
  <2>3. /\ \A i \in 1 .. Len(queue') : ~Digest(queue'[i], t)
        /\ \A c \in Consumers : InHand(c)' => ~Digest(citem'[c], t)
        /\ \A v \in Producers :
              v # w => (Offering(v)' => ~Digest(pitem'[v], t))
    BY <1>a, <2>2
  <2>4. \A x \in Items : Pending(x)' /\ x.kind = "tokdig" /\ t \in x.toks
          => x = pitem'[w]
    BY <1>a, <2>1 DEF Pending
  <2>5. digested'[t] = 0 /\ t \in submitted'
    BY <1>2 DEF DigestOf
  <2>6. \A x \in Items : (Pending(x)' /\ x.kind = "tokdig" /\ t \in x.toks)
          => x.toks = {t} /\ t \in submitted' /\ digested'[t] = 0
    BY <1>2, <2>4, <2>5
  <2>7. QED
    BY <2>3, <2>5, <2>6 DEF DigestOf
<1>3. QED
  BY <1>1, <1>2

\* The call is made: the token's only item leaves its consumer's hand.
LEMMA DigestMade ==
  ASSUME Types, ConsumerInv, NEW t \in Tokens, DigestOf(t),
         NEW c \in Consumers, DoItem(c)
  PROVE  DigestOf(t)'
<1>a. /\ cpc \in [Consumers -> {"get", "empty", "exit"} \cup Holding]
      /\ digested \in [Tokens -> Nat]
  BY DEF Types, TypeOK
<1>b. /\ UNCHANGED <<queue, submitted, ppc, pitem, citem>> /\ InHand(c)
      /\ cpc' = [cpc EXCEPT ![c] = "done"]
  BY DEF DoItem, Calling, InHand, queueVars, prodVars
<1>c. /\ ~InHand(c)' /\ \A d \in Consumers : InHand(d)' => InHand(d)
      /\ \A d \in Consumers : d # c => (InHand(d)' <=> InHand(d))
  BY <1>a, <1>b DEF InHand
<1>d. citem[c] \in Items /\ Pending(citem[c])
  BY <1>b DEF ConsumerInv, Pending
<1>1. CASE ~(citem[c].kind = "tokdig" /\ t \in citem[c].toks)
  <2>1. digested'[t] = digested[t]
    BY <1>1, <1>a DEF DoItem, Count, histVars
  <2>2. \A x \in Items : Pending(x)' => Pending(x)
    BY <1>b, <1>c DEF Pending, Offering
  <2>3. QED
    BY <1>b, <1>c, <2>1, <2>2 DEF DigestOf, Offering
<1>2. CASE citem[c].kind = "tokdig" /\ t \in citem[c].toks
  <2>1. Digest(citem[c], t) /\ t \in submitted /\ digested[t] = 0
    BY <1>2, <1>d DEF DigestOf, Digest
  <2>2. digested'[t] = 1
    BY <1>2, <1>a, <2>1 DEF DoItem, Count
  <2>3. /\ \A i \in 1 .. Len(queue) : ~Digest(queue[i], t)
        /\ \A d \in Consumers \ {c} : InHand(d) => ~Digest(citem[d], t)
        /\ \A v \in Producers : Offering(v) => ~Digest(pitem[v], t)
    BY <1>b, <2>1 DEF DigestOf
  <2>4. /\ \A i \in 1 .. Len(queue') : ~Digest(queue'[i], t)
        /\ \A d \in Consumers : InHand(d)' => ~Digest(citem'[d], t)
        /\ \A v \in Producers : Offering(v)' => ~Digest(pitem'[v], t)
    BY <1>b, <1>c, <2>3 DEF Offering
  <2>5. ASSUME NEW x \in Items, Pending(x)', x.kind = "tokdig", t \in x.toks
        PROVE  FALSE
    <3>1. Pending(x)
      BY <1>b, <1>c, <2>5 DEF Pending, Offering
    <3>2. Digest(x, t)
      BY <2>5, <3>1 DEF DigestOf, Digest
    <3>3. QED
      BY <2>4, <2>5, <3>2 DEF Pending
  <2>6. t \in submitted'
    BY <1>b, <2>1
  <2>7. QED
    BY <2>2, <2>4, <2>5, <2>6 DEF DigestOf
<1>3. QED
  BY <1>1, <1>2

\* An item goes from its producer to the end of the queue.
LEMMA DigestPut ==
  ASSUME Types, ProducerInv, NEW t \in Tokens, DigestOf(t),
         NEW w \in Producers, Put(w)
  PROVE  DigestOf(t)'
<1>a. /\ ppc \in [Producers -> {"plan", "leaf", "tokens", "check", "put",
                                "fail", "stopping", "exit"}]
      /\ pitem \in [Producers -> Items \cup {NoItem}]
  BY DEF Types, TypeOK
<1>b. /\ UNCHANGED <<submitted, digested, cpc, citem>> /\ Offering(w)
      /\ ~Offering(w)' /\ \A v \in Producers : Offering(v)' => Offering(v)
      /\ \A v \in Producers : v # w => pitem'[v] = pitem[v]
  BY <1>a DEF Put, Offering, tableVars, consVars, histVars
<1>c. /\ Len(queue) \in Nat /\ Len(queue') = Len(queue) + 1
      /\ \A i \in 1 .. Len(queue) : queue'[i] = queue[i]
      /\ queue'[Len(queue) + 1] = pitem[w]
  BY PutEffect
<1>d. \A i \in 1 .. Len(queue') :
        \/ i \in 1 .. Len(queue) /\ queue'[i] = queue[i]
        \/ i = Len(queue) + 1 /\ queue'[i] = pitem[w]
  BY <1>c
<1>e. \A c : InHand(c)' <=> InHand(c)
  BY <1>b DEF InHand
<1>1. \A x \in Items : Pending(x)' => Pending(x)
  BY <1>b, <1>d, <1>e DEF Pending
<1>2. \A x \in Items : (Pending(x)' /\ x.kind = "tokdig" /\ t \in x.toks)
        => x.toks = {t} /\ t \in submitted' /\ digested'[t] = 0
  BY <1>1, <1>b DEF DigestOf
<1>3. digested'[t] # 0 => t \in submitted' /\ digested'[t] = 1
  BY <1>b DEF DigestOf
<1>4. \A i, j \in 1 .. Len(queue') :
        Digest(queue'[i], t) /\ Digest(queue'[j], t) => i = j
  BY <1>b, <1>d DEF DigestOf
<1>5. \A c, d \in Consumers :
        (/\ InHand(c)' /\ Digest(citem'[c], t)
         /\ InHand(d)' /\ Digest(citem'[d], t)) => c = d
  BY <1>b, <1>e DEF DigestOf
<1>6. \A u, v \in Producers :
        (/\ Offering(u)' /\ Digest(pitem'[u], t)
         /\ Offering(v)' /\ Digest(pitem'[v], t)) => u = v
  BY <1>b DEF DigestOf
<1>7. \A c \in Consumers : (InHand(c)' /\ Digest(citem'[c], t)) =>
        \A i \in 1 .. Len(queue') : ~Digest(queue'[i], t)
  BY <1>b, <1>d, <1>e DEF DigestOf
<1>8. \A v \in Producers : (Offering(v)' /\ Digest(pitem'[v], t)) =>
        /\ \A i \in 1 .. Len(queue') : ~Digest(queue'[i], t)
        /\ \A c \in Consumers : ~(InHand(c)' /\ Digest(citem'[c], t))
  BY <1>b, <1>d, <1>e DEF DigestOf
<1>9. QED
  BY <1>2, <1>3, <1>4, <1>5, <1>6, <1>7, <1>8 DEF DigestOf, Digest

\* An item goes from the head of the queue to a consumer.
LEMMA DigestGot ==
  ASSUME Types, NEW t \in Tokens, DigestOf(t), NEW c \in Consumers, Get(c)
  PROVE  DigestOf(t)'
<1>a. /\ cpc \in [Consumers -> {"get", "empty", "exit"} \cup Holding]
      /\ citem \in [Consumers -> Items \cup {NoItem}]
  BY DEF Types, TypeOK
<1>b. /\ Len(queue) \in Nat \ {0} /\ Len(queue') = Len(queue) - 1
      /\ \A i \in 1 .. Len(queue') : queue'[i] = queue[i + 1]
      /\ Head(queue) = queue[1]
  BY GetEffect
<1>c. /\ UNCHANGED <<submitted, digested, ppc, pitem>> /\ ~InHand(c)
      /\ \A d \in Consumers : d # c =>
            (InHand(d)' <=> InHand(d)) /\ citem'[d] = citem[d]
      /\ citem'[c] = queue[1]
  BY <1>a, <1>b DEF Get, InHand, prodVars, tableVars, histVars
<1>d. /\ \A v : Offering(v)' <=> Offering(v)
      /\ 1 \in 1 .. Len(queue)
      /\ \A i \in 1 .. Len(queue') : /\ i + 1 \in 1 .. Len(queue)
                                     /\ queue'[i] = queue[i + 1]
                                     /\ i + 1 # 1
  BY <1>b, <1>c DEF Offering
<1>1. \A x \in Items : Pending(x)' => Pending(x)
  BY <1>c, <1>d DEF Pending
<1>2. \A x \in Items : (Pending(x)' /\ x.kind = "tokdig" /\ t \in x.toks)
        => x.toks = {t} /\ t \in submitted' /\ digested'[t] = 0
  BY <1>1, <1>c DEF DigestOf
<1>3. digested'[t] # 0 => t \in submitted' /\ digested'[t] = 1
  BY <1>c DEF DigestOf
<1>4. ASSUME NEW i \in 1 .. Len(queue'), NEW j \in 1 .. Len(queue'),
             Digest(queue'[i], t), Digest(queue'[j], t)
      PROVE  i = j
  <2>1. i + 1 = j + 1
    BY <1>4, <1>d DEF DigestOf
  <2>2. QED
    BY <2>1
<1>5. \A d, e \in Consumers :
        (/\ InHand(d)' /\ Digest(citem'[d], t)
         /\ InHand(e)' /\ Digest(citem'[e], t)) => d = e
  BY <1>c, <1>d DEF DigestOf
<1>6. \A u, v \in Producers :
        (/\ Offering(u)' /\ Digest(pitem'[u], t)
         /\ Offering(v)' /\ Digest(pitem'[v], t)) => u = v
  BY <1>c, <1>d DEF DigestOf
<1>7. \A d \in Consumers : (InHand(d)' /\ Digest(citem'[d], t)) =>
        \A i \in 1 .. Len(queue') : ~Digest(queue'[i], t)
  BY <1>c, <1>d DEF DigestOf
<1>8. \A v \in Producers : (Offering(v)' /\ Digest(pitem'[v], t)) =>
        /\ \A i \in 1 .. Len(queue') : ~Digest(queue'[i], t)
        /\ \A d \in Consumers : ~(InHand(d)' /\ Digest(citem'[d], t))
  BY <1>c, <1>d DEF DigestOf
<1>9. QED
  BY <1>2, <1>3, <1>4, <1>5, <1>6, <1>7, <1>8 DEF DigestOf, Digest

LEMMA DigestByProducer ==
  ASSUME Types, ConsumerInv, ProducerInv, NEW t \in Tokens, DigestOf(t),
         NEW w \in Producers, ProducerStep(w)
  PROVE  DigestOf(t)'
<1>a. /\ ppc \in [Producers -> {"plan", "leaf", "tokens", "check", "put",
                                "fail", "stopping", "exit"}]
      /\ pitem \in [Producers -> Items \cup {NoItem}]
      /\ pdig \in [Producers -> SUBSET Tokens]
  BY DEF Types, TypeOK
<1>b. \A v \in Producers : v # w =>
        (Offering(v)' <=> Offering(v)) /\ pitem'[v] = pitem[v]
  BY OnlyOwn DEF Offering
<1>c. ASSUME queue' = queue, digested' = digested,
             submitted \subseteq submitted',
             cpc' = cpc, citem' = citem,
             Offering(w)' => \/ Offering(w) /\ pitem'[w] = pitem[w]
                             \/ pitem'[w].kind # "tokdig"
      PROVE  DigestOf(t)'
  <2>1. /\ \A c \in Consumers : InHand(c)' =>
              InHand(c) /\ citem'[c] = citem[c]
        /\ \A v \in Producers : Offering(v)' =>
              \/ Offering(v) /\ pitem'[v] = pitem[v]
              \/ pitem'[v].kind # "tokdig"
    BY <1>b, <1>c DEF InHand
  <2>2. QED
    BY <1>c, <2>1, DigestFrame
<1>1. CASE BeginPlan(w)
  BY <1>1, <1>a, <1>c DEF BeginPlan, Offering, queueVars, tableVars, consVars,
     histVars
<1>2. CASE ChunkDone(w)
  BY <1>2, <1>a, <1>c DEF ChunkDone, Return, Offering, queueVars, tableVars,
     consVars, histVars
<1>3. CASE NextWindow(w)
  <2>1. pitem'[w].kind = "leaf"
    BY <1>3, <1>a DEF NextWindow, Offer
  <2>2. QED
    BY <1>3, <1>c, <2>1 DEF NextWindow, queueVars, tableVars, consVars,
       histVars
<1>4. CASE ScanTokens(w)
  BY <1>4, <1>a, <1>c DEF ScanTokens, Offering, queueVars, tableVars,
     consVars, histVars
<1>5. CASE NextBatch(w)
  <2>1. pitem'[w].kind = "tokval"
    BY <1>5, <1>a DEF NextBatch, Offer
  <2>2. QED
    BY <1>5, <1>c, <2>1 DEF NextBatch, queueVars, tableVars, consVars,
       histVars
<1>6. CASE NextToken(w)
  <2>1. PICK u \in FirstOf(pdig[w], 1) :
           \/ UNCHANGED <<submitted, pitem, ppc>>
           \/ /\ u \notin submitted /\ submitted' = submitted \cup {u}
              /\ pitem' = [pitem EXCEPT ![w] =
                    [kind |-> "tokdig", plan |-> Plan(w), seq |-> 0,
                     toks |-> {u}]]
              /\ ppc' = [ppc EXCEPT ![w] = "check"]
    BY <1>6 DEF NextToken, Claim, Offer
  <2>2. /\ UNCHANGED <<queue, digested, cpc, citem>> /\ ppc[w] = "tokens"
        /\ u \in Tokens
    BY <1>6, <1>a DEF NextToken, FirstOf, queueVars, consVars, histVars
  <2>3. CASE UNCHANGED <<submitted, pitem, ppc>>
    BY <1>c, <2>2, <2>3 DEF Offering
  <2>4. CASE /\ u \notin submitted /\ submitted' = submitted \cup {u}
             /\ pitem' = [pitem EXCEPT ![w] =
                    [kind |-> "tokdig", plan |-> Plan(w), seq |-> 0,
                     toks |-> {u}]]
    <3>1. pdone[w] < Len(Chunk[w])
      BY <2>2 DEF ProducerInv, Planning
    <3>2. /\ pitem'[w] \in Items /\ pitem'[w].kind = "tokdig"
          /\ pitem'[w].toks = {u}
      BY <1>a, <2>2, <2>4, <3>1, PlanIsPlan DEF Items
    <3>3. QED
      BY <1>b, <2>2, <2>4, <3>2, DigestClaimed
  <2>5. QED
    BY <2>1, <2>3, <2>4
<1>7. CASE PlanDone(w)
  BY <1>7, <1>a, <1>c DEF PlanDone, Offering, queueVars, tableVars, consVars,
     histVars
<1>8. CASE ProducerStops(w)
  BY <1>8, <1>a, <1>c DEF ProducerStops, Return, Offering, queueVars,
     tableVars, consVars, histVars
<1>9. CASE CheckPut(w)
  BY <1>9, <1>a, <1>c DEF CheckPut, Offering, queueVars, tableVars, consVars,
     histVars
<1>10. CASE Put(w)
  BY <1>10, DigestPut
<1>11. CASE PutFull(w)
  BY <1>11, <1>a, <1>c DEF PutFull, Offering, queueVars, tableVars, consVars,
     histVars
<1>12. CASE ProducerRecords(w)
  BY <1>12, <1>a, <1>c DEF ProducerRecords, Offering, queueVars, tableVars,
     consVars, histVars
<1>13. CASE ProducerSetsStop(w)
  BY <1>13, <1>a, <1>c DEF ProducerSetsStop, Offering, queueVars, tableVars,
     consVars, histVars
<1>14. QED
  BY <1>1, <1>2, <1>3, <1>4, <1>5, <1>6, <1>7, <1>8, <1>9, <1>10, <1>11,
     <1>12, <1>13 DEF ProducerStep

LEMMA DigestByConsumer ==
  ASSUME Types, ConsumerInv, NEW t \in Tokens, DigestOf(t),
         NEW c \in Consumers, ConsumerStep(c)
  PROVE  DigestOf(t)'
<1>a. cpc \in [Consumers -> {"get", "empty", "exit"} \cup Holding]
      /\ citem \in [Consumers -> Items \cup {NoItem}]
  BY DEF Types, TypeOK
<1>b. ASSUME UNCHANGED <<queue, digested, submitted, ppc, pitem>>,
             \A d \in Consumers : InHand(d)' =>
                 InHand(d) /\ citem'[d] = citem[d]
      PROVE  DigestOf(t)'
  <2>1. \A w \in Producers : Offering(w)' =>
           Offering(w) /\ pitem'[w] = pitem[w]
    BY <1>b DEF Offering
  <2>2. QED
    BY <1>b, <2>1, DigestFrame
<1> USE DEF queueVars, tableVars, prodVars, histVars, InHand
<1>1. CASE Get(c)
  BY <1>1, DigestGot
<1>2. CASE GetTimesOut(c)
  BY <1>2, <1>a, <1>b DEF GetTimesOut
<1>3. CASE LeaveOrWait(c)
  BY <1>3, <1>a, <1>b DEF LeaveOrWait
<1>4. CASE Discard(c)
  BY <1>4, <1>a, <1>b DEF Discard
<1>5. CASE ConsumerStops(c)
  BY <1>5, <1>a, <1>b DEF ConsumerStops, Raise
<1>6. CASE BeginItem(c)
  BY <1>6, <1>a, <1>b DEF BeginItem
<1>7. CASE LookUpDigest(c)
  BY <1>7, <1>a, <1>b DEF LookUpDigest
<1>8. CASE DoItem(c)
  BY <1>8, DigestMade
<1>9. CASE KernelFails(c)
  BY <1>9, <1>a, <1>b DEF KernelFails, Raise
<1>10. CASE ConsumerRecords(c)
  BY <1>10, <1>a, <1>b DEF ConsumerRecords
<1>11. CASE ConsumerSetsStop(c)
  BY <1>11, <1>a, <1>b DEF ConsumerSetsStop
<1>12. CASE TaskDone(c)
  BY <1>12, <1>a, <1>b DEF TaskDone
<1>13. QED
  BY <1>1, <1>2, <1>3, <1>4, <1>5, <1>6, <1>7, <1>8, <1>9, <1>10, <1>11,
     <1>12 DEF ConsumerStep

LEMMA DigestStep ==
  ASSUME Types, ConsumerInv, ProducerInv, DigestInv, [Next]_vars
  PROVE  DigestInv'
<1>1. SUFFICES ASSUME NEW t \in Tokens PROVE DigestOf(t)'
  BY DEF DigestInv
<1>2. DigestOf(t)
  BY DEF DigestInv
<1>3. CASE UNCHANGED vars \/ Cancel \/ MainStep
  <2>1. UNCHANGED <<queue, digested, submitted, ppc, pitem, cpc, citem>>
    BY <1>3 DEF vars, queueVars, tableVars, prodVars, consVars, histVars,
       Cancel, MainStep, ProducersDone, JoinQueue, JoinConsumers
  <2>2. /\ \A c \in Consumers : InHand(c)' =>
              InHand(c) /\ citem'[c] = citem[c]
        /\ \A w \in Producers : Offering(w)' =>
              Offering(w) /\ pitem'[w] = pitem[w]
    BY <2>1 DEF InHand, Offering
  <2>3. QED
    BY <1>2, <2>1, <2>2, DigestFrame
<1>4. CASE \E w \in Producers : ProducerStep(w)
  BY <1>2, <1>4, DigestByProducer
<1>5. CASE \E c \in Consumers : ConsumerStep(c)
  BY <1>2, <1>5, DigestByConsumer
<1>6. QED
  BY <1>3, <1>4, <1>5 DEF Next

-----------------------------------------------------------------------------

LEMMA InvInit ==
  ASSUME Init
  PROVE  Inv
<1>a. IsFiniteSet({}) /\ Cardinality({}) = 0
  BY FS_EmptySet
<1>b. queue = << >> /\ queue \in Seq(Items) /\ Len(queue) = 0
  BY DEF Init
<1>c. /\ \A c \in Consumers : cpc[c] = "get"
      /\ \A w \in Producers : /\ ppc[w] = "plan" /\ pdone[w] = 0
                              /\ Chunk[w] \in Seq(Plans)
                              /\ Len(Chunk[w]) \in Nat
  BY PlansTyped DEF Init
<1>d. \A x : ~Pending(x)
  BY <1>b, <1>c DEF Pending, InHand, Offering
<1>1. Types
  <2>1. /\ queue \in Seq(Items) /\ Len(queue) <= QueueSize
        /\ memoValid \subseteq Tokens /\ memoDigest \subseteq Tokens
    BY <1>b, TokensAreNumbers, SizesPositive DEF Init
  <2>2. /\ ppc \in [Producers -> {"plan", "leaf", "tokens", "check", "put",
                                  "fail", "stopping", "exit"}]
        /\ cpc \in [Consumers -> {"get", "empty", "exit"} \cup Holding]
        /\ pitem \in [Producers -> Items \cup {NoItem}]
        /\ citem \in [Consumers -> Items \cup {NoItem}]
        /\ cerr \in [Consumers -> Errors \cup {"none"}]
    BY DEF Init
  <2>3. QED
    BY <2>1, <2>2 DEF Init, Types, TypeOK
<1>2. DrainAccounts
  <2>1. {c \in Consumers : cpc[c] \in Holding} = {}
    BY <1>c DEF Holding
  <2>2. 0 = 0 + 0 /\ unfinished = 0
    BY DEF Init
  <2>3. QED
    BY <1>a, <1>b, <2>1, <2>2, Zenon DEF Init, DrainAccounts
<1>3. ConsumerInv
  BY <1>c DEF ConsumerInv, InHand
<1>4. ProducerInv
  BY <1>c DEF ProducerInv, Planning, Offering
<1>5. StopInv /\ PhaseInv
  BY DEF Init, StopInv, CauseReported, PhaseInv
<1>6. WorkInv
  <2>1. SubmittedMet
    BY DEF Init, SubmittedMet
  <2>2. ASSUME NEW w \in Producers PROVE PlansMet(w) /\ PlanSoFar(w)
    BY <1>c DEF PlansMet, PlanSoFar, Planning, Scanned, Offering
  <2>3. QED
    BY <2>1, <2>2 DEF WorkInv
<1>7. DigestInv
  <2>1. ASSUME NEW t \in Tokens PROVE DigestOf(t)
    BY <1>b, <1>c, <1>d DEF DigestOf, Init, InHand, Offering
  <2>2. QED
    BY <2>1 DEF DigestInv
<1>8. QED
  BY <1>1, <1>2, <1>3, <1>4, <1>5, <1>6, <1>7 DEF Inv

LEMMA InvStep ==
  ASSUME Inv, [Next]_vars
  PROVE  Inv'
<1> USE DEF Inv
<1>1. DrainAccounts' /\ unfinished' \in Nat
  BY DrainStep
<1>2. Types'
  BY <1>1, TypeStep
<1>3. ConsumerInv' /\ ProducerInv'
  BY ConsumerInvStep, ProducerInvStep
<1>4. StopInv' /\ PhaseInv'
  BY StopStep, PhaseStep
<1>5. WorkInv'
  BY WorkStep
<1>6. DigestInv'
  BY DigestStep
<1>7. QED
  BY <1>1, <1>2, <1>3, <1>4, <1>5, <1>6

LEMMA Invariance == Spec => []Inv
<1>1. Init => Inv
  BY InvInit
<1>2. Inv /\ [Next]_vars => Inv'
  BY InvStep
<1>3. QED
  BY <1>1, <1>2, PTL DEF Spec

-----------------------------------------------------------------------------

\* Every variable keeps its type; the queue never holds more than its bound.
THEOREM TypeCorrect == Spec => []TypeOK
<1>1. Inv => TypeOK
  BY DEF Inv, Types
<1>2. QED
  BY <1>1, Invariance, PTL

\* The count `work.join()` waits for is what is queued and in hand, on every
\* path through `consume`: done, discarded or failed.
THEOREM DrainIsExact == Spec => []DrainAccounts
<1>1. Inv => DrainAccounts
  BY DEF Inv
<1>2. QED
  BY <1>1, Invariance, PTL

\* A build that raises nothing has every leaf, verdict and digest, whichever
\* thread claimed a token and however the threads were scheduled.
THEOREM ResultComplete == Spec => []Complete
<1>1. ASSUME Inv, mpc = "done", NEW p \in Plans
      PROVE  /\ \A i \in 0 .. Windows[p] - 1 : <<p, i>> \in leaves
             /\ PlanTokens[p] \subseteq memoValid
             /\ PlanTokens[p] \subseteq digests \cup memoDigest
  <2>1. /\ unfinished = 0 /\ error = "none"
        /\ \A w \in Producers : ppc[w] = "exit"
    BY <1>1 DEF Inv, PhaseInv, StopInv
  <2>2. queue = << >> /\ \A c \in Consumers : cpc[c] \notin Holding
    BY <1>1, <2>1, NothingLeft DEF Inv
  <2>3. \A x : ~Pending(x)
    BY <2>1, <2>2 DEF Pending, InHand, Offering, Holding
  <2>4. ~Failing
    BY <2>1, <2>2 DEF Failing, Holding
  <2>5. PICK w \in Producers : \E k \in DOMAIN Chunk[w] : Chunk[w][k] = p
    BY EveryPlanChunked
  <2>6. PICK k \in 1 .. Len(Chunk[w]) : Chunk[w][k] = p
    BY <2>5, PlansTyped
  <2>7. SubmittedMet /\ PlanMet(p)
    BY <1>1, <2>1, <2>4, <2>6 DEF Inv, WorkInv, PlansMet
  <2>8. \A i \in 0 .. Windows[p] - 1 : <<p, i>> \in leaves
    BY <2>3, <2>7 DEF PlanMet, LeavesMet, LeafMet
  <2>9. \A t \in PlanTokens[p] : t \in memoValid /\ t \in digests
    BY <2>3, <2>7 DEF PlanMet, SubmittedMet, ValidMet, DigestMet
  <2>10. QED
    BY <2>8, <2>9
<1>2. Inv => Complete
  BY <1>1 DEF Complete
<1>3. QED
  BY <1>2, Invariance, PTL

\* A build that was not cancelled never reports a cancellation.
THEOREM CauseIsReported == Spec => []CauseReported
<1>1. Inv => CauseReported
  BY DEF Inv, StopInv
<1>2. QED
  BY <1>1, Invariance, PTL

\* No token's digest is computed twice, with any number of threads.
THEOREM DigestsOnce == Spec => []DigestedOnce
<1>1. ASSUME Inv, NEW t \in Tokens PROVE digested[t] <= 1
  <2>1. digested[t] \in Nat /\ DigestOf(t)
    BY <1>1 DEF Inv, Types, TypeOK, DigestInv
  <2>2. QED
    BY <2>1 DEF DigestOf
<1>2. Inv => DigestedOnce
  BY <1>1 DEF DigestedOnce
<1>3. QED
  BY <1>2, Invariance, PTL

=============================================================================
