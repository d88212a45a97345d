------------------------------ MODULE Pipeline ------------------------------
(***************************************************************************)
(* The build pipeline (`Pipeline._run` of runner/mncs_index/pipeline.py):  *)
(* producer threads turn the plans of the files into work items and put    *)
(* them into a bounded queue, consumer threads execute one kernel call per *)
(* item, and the caller waits for the producers, marks them done, waits    *)
(* for the queue to be worked off and assembles the results.  A consumer   *)
(* waits for an item with a timeout: Empty may be raised whenever the      *)
(* queue is empty, and the mark is read a moment later.                    *)
(*                                                                         *)
(* Kernel verdicts are pure, so a table of results is the set of keys it   *)
(* has; tokens are numbered in their sorted order.                         *)
(***************************************************************************)
EXTENDS Integers, FiniteSets, Sequences

CONSTANTS Producers, Consumers,
          QueueSize,
          BatchSize,     \* tokens per validate8 call
          Tokens,        \* the token vocabulary, a set of numbers
          Known,         \* the tokens earlier builds can have met
          Plans,         \* the planned files
          Windows,       \* Windows[p]: the number of windows of plan p
          PlanTokens,    \* PlanTokens[p]: the tokens of plan p
          Chunk          \* Chunk[w]: the plans of producer w, in order

ASSUME ThreadsFinite == IsFiniteSet(Consumers)
ASSUME SizesPositive == QueueSize \in Nat \ {0} /\ BatchSize \in Nat \ {0}
ASSUME TokensAreNumbers == Tokens \subseteq Nat /\ Known \subseteq Tokens
ASSUME PlansTyped == /\ Windows \in [Plans -> Nat]
                     /\ PlanTokens \in [Plans -> SUBSET Tokens]
                     /\ Chunk \in [Producers -> Seq(Plans)]
\* chunks = plans[i::n_plan]: every plan is in some chunk.
ASSUME EveryPlanChunked ==
    \A p \in Plans : \E w \in Producers : \E i \in DOMAIN Chunk[w] :
        Chunk[w][i] = p

Items == [kind : {"leaf", "tokval", "tokdig"}, plan : Plans, seq : Nat,
          toks : SUBSET Tokens]

VARIABLES
    cancel,             \* cancel_event
    \* shared by the threads: the queue and its count of unfinished tasks, the
    \* events _stop and producers_done, the first of _errors
    queue, unfinished, producersDone, stop, error,
    \* the tables: leaves, tok_digests, submitted_digests, and the kernels'
    \* memos _token_valid and _token_digest, which outlive a build
    leaves, digests, submitted, memoValid, memoDigest,
    mpc,                \* the caller
    \* the producers: program counter, plans done, windows done of the plan,
    \* tokens still to validate and to digest, the item at hand
    ppc, pdone, pwin, pval, pdig, pitem,
    \* the consumers: program counter, item at hand, error
    cpc, citem, cerr,
    \* history: how often a token was sent to validate8 and to token_digest
    validated, digested

queueVars == <<queue, unfinished>>
markVars  == <<producersDone, stop, error>>
tableVars == <<leaves, digests, submitted, memoValid, memoDigest>>
prodVars  == <<ppc, pdone, pwin, pval, pdig, pitem>>
consVars  == <<cpc, citem, cerr>>
histVars  == <<validated, digested>>
vars == <<cancel, queueVars, markVars, tableVars, mpc, prodVars, consVars,
          histVars>>

Errors  == {"cancelled", "failed"}
Holding == {"item", "work", "call", "fail", "stopping", "done"}
NoItem  == [kind |-> "none"]

TypeOK ==
    /\ cancel \in BOOLEAN
    /\ queue \in Seq(Items) /\ Len(queue) <= QueueSize
    /\ unfinished \in Nat
    /\ producersDone \in BOOLEAN /\ stop \in BOOLEAN
    /\ error \in Errors \cup {"none"}
    /\ leaves \subseteq Plans \X Nat
    /\ digests \subseteq Tokens /\ submitted \subseteq Tokens
    /\ memoValid \subseteq Tokens /\ memoDigest \subseteq Tokens
    /\ mpc \in {"produce", "join", "consumers", "done", "raised"}
    /\ ppc \in [Producers -> {"plan", "leaf", "tokens", "check", "put",
                              "fail", "stopping", "exit"}]
    /\ pdone \in [Producers -> Nat]
    /\ pwin \in [Producers -> Nat]
    /\ pval \in [Producers -> SUBSET Tokens]
    /\ pdig \in [Producers -> SUBSET Tokens]
    /\ pitem \in [Producers -> Items \cup {NoItem}]
    /\ cpc \in [Consumers -> {"get", "empty", "exit"} \cup Holding]
    /\ citem \in [Consumers -> Items \cup {NoItem}]
    /\ cerr \in [Consumers -> Errors \cup {"none"}]
    /\ validated \in [Tokens -> Nat] /\ digested \in [Tokens -> Nat]

\* The memos hold whatever earlier builds of the session left in them.
Init ==
    /\ cancel = FALSE
    /\ queue = << >> /\ unfinished = 0
    /\ producersDone = FALSE /\ stop = FALSE /\ error = "none"
    /\ leaves = {} /\ digests = {} /\ submitted = {}
    /\ memoValid \in SUBSET Known /\ memoDigest \in SUBSET Known
    /\ mpc = "produce"
    /\ ppc = [w \in Producers |-> "plan"]
    /\ pdone = [w \in Producers |-> 0]
    /\ pwin = [w \in Producers |-> 0]
    /\ pval = [w \in Producers |-> {}]
    /\ pdig = [w \in Producers |-> {}]
    /\ pitem = [w \in Producers |-> NoItem]
    /\ cpc = [c \in Consumers |-> "get"]
    /\ citem = [c \in Consumers |-> NoItem]
    /\ cerr = [c \in Consumers |-> "none"]
    /\ validated = [t \in Tokens |-> 0] /\ digested = [t \in Tokens |-> 0]

Ended == mpc \in {"done", "raised"}

Cancel ==
    /\ ~cancel /\ ~Ended
    /\ cancel' = TRUE
    /\ UNCHANGED <<queueVars, markVars, tableVars, mpc, prodVars, consVars,
                   histVars>>

RecordFirst(e) == error' = IF error = "none" THEN e ELSE error

-----------------------------------------------------------------------------
(* The producers.                                                          *)

Plan(w) == Chunk[w][pdone[w] + 1]

\* The producer is done with its chunk: what it kept on the way is gone.
Return(w, at) == /\ ppc' = [ppc EXCEPT ![w] = at]
                 /\ pdone' = [pdone EXCEPT ![w] = 0]
                 /\ pwin' = [pwin EXCEPT ![w] = 0]
                 /\ pval' = [pval EXCEPT ![w] = {}]
                 /\ pdig' = [pdig EXCEPT ![w] = {}]
                 /\ pitem' = [pitem EXCEPT ![w] = NoItem]

\* The next plan of the chunk; a stop or a cancellation is seen first.
BeginPlan(w) ==
    /\ ppc[w] = "plan" /\ pdone[w] < Len(Chunk[w])
    /\ ~stop /\ ~cancel
    /\ ppc' = [ppc EXCEPT ![w] = "leaf"]
    /\ pwin' = [pwin EXCEPT ![w] = 0]
    /\ UNCHANGED <<cancel, queueVars, markVars, tableVars, mpc, pdone, pval,
                   pdig, pitem, consVars, histVars>>

ChunkDone(w) ==
    /\ ppc[w] = "plan" /\ pdone[w] = Len(Chunk[w])
    /\ Return(w, "exit")
    /\ UNCHANGED <<cancel, queueVars, markVars, tableVars, mpc, consVars,
                   histVars>>

Offer(w, item) == /\ pitem' = [pitem EXCEPT ![w] = item]
                  /\ ppc' = [ppc EXCEPT ![w] = "check"]

NextWindow(w) ==
    /\ ppc[w] = "leaf" /\ pwin[w] < Windows[Plan(w)]
    /\ Offer(w, [kind |-> "leaf", plan |-> Plan(w), seq |-> pwin[w],
                 toks |-> {}])
    /\ pwin' = [pwin EXCEPT ![w] = @ + 1]
    /\ UNCHANGED <<cancel, queueVars, markVars, tableVars, mpc, pdone, pval,
                   pdig, consVars, histVars>>

\* After the windows the memo is read once, under the kernel lock.
ScanTokens(w) ==
    /\ ppc[w] = "leaf" /\ pwin[w] = Windows[Plan(w)]
    /\ pval' = [pval EXCEPT ![w] = PlanTokens[Plan(w)] \ memoValid]
    /\ pdig' = [pdig EXCEPT ![w] = PlanTokens[Plan(w)]]
    /\ ppc' = [ppc EXCEPT ![w] = "tokens"]
    /\ UNCHANGED <<cancel, queueVars, markVars, tableVars, mpc, pdone, pwin,
                   pitem, consVars, histVars>>

FirstOf(S, n) == {t \in S : Cardinality({u \in S : u < t}) < n}

\* One batch of the uncached tokens goes to validate8.
NextBatch(w) ==
    /\ ppc[w] = "tokens" /\ pval[w] # {}
    /\ LET batch == FirstOf(pval[w], BatchSize) IN
         /\ Offer(w, [kind |-> "tokval", plan |-> Plan(w), seq |-> 0,
                      toks |-> batch])
         /\ pval' = [pval EXCEPT ![w] = @ \ batch]
    /\ UNCHANGED <<cancel, queueVars, markVars, tableVars, mpc, pdone, pwin,
                   pdig, consVars, histVars>>

\* Fault: the token is looked up and not claimed.
NoClaim(t) == UNCHANGED submitted

Claim(t) == submitted' = submitted \cup {t}

\* Under the state lock the token is skipped, taken from the memo or claimed.
NextToken(w) ==
    /\ ppc[w] = "tokens" /\ pval[w] = {}
    /\ \E t \in FirstOf(pdig[w], 1) :
         /\ pdig' = [pdig EXCEPT ![w] = @ \ {t}]
         /\ \/ /\ t \in digests \cup submitted
               /\ UNCHANGED <<digests, submitted, pitem, ppc>>
            \/ /\ t \notin digests \cup submitted /\ t \in memoDigest
               /\ digests' = digests \cup {t}
               /\ UNCHANGED <<submitted, pitem, ppc>>
            \/ /\ t \notin digests \cup submitted /\ t \notin memoDigest
               /\ Claim(t)
               /\ Offer(w, [kind |-> "tokdig", plan |-> Plan(w), seq |-> 0,
                            toks |-> {t}])
               /\ UNCHANGED digests
    /\ UNCHANGED <<cancel, queueVars, markVars, leaves, memoValid, memoDigest,
                   mpc, pdone, pwin, pval, consVars, histVars>>

PlanDone(w) ==
    /\ ppc[w] = "tokens" /\ pval[w] = {} /\ pdig[w] = {}
    /\ pdone' = [pdone EXCEPT ![w] = @ + 1]
    /\ ppc' = [ppc EXCEPT ![w] = "plan"]
    /\ UNCHANGED <<cancel, queueVars, markVars, tableVars, mpc, pwin, pval,
                   pdig, pitem, consVars, histVars>>

\* _check_cancel before a plan and before every attempt to put.
ProducerStops(w) ==
    /\ \/ ppc[w] = "check"
       \/ ppc[w] = "plan" /\ pdone[w] < Len(Chunk[w])
    /\ stop \/ cancel
    /\ stop' = TRUE
    /\ Return(w, "fail")
    /\ UNCHANGED <<cancel, queueVars, producersDone, error, tableVars, mpc,
                   consVars, histVars>>

CheckPut(w) ==
    /\ ppc[w] = "check" /\ ~stop /\ ~cancel
    /\ ppc' = [ppc EXCEPT ![w] = "put"]
    /\ UNCHANGED <<cancel, queueVars, markVars, tableVars, mpc, pdone, pwin,
                   pval, pdig, pitem, consVars, histVars>>

\* Fault: the queue has no bound.
PutUnbounded(w) ==
    /\ ppc[w] = "put"
    /\ queue' = Append(queue, pitem[w])
    /\ unfinished' = unfinished + 1
    /\ ppc' = [ppc EXCEPT ![w] = IF pitem[w].kind = "leaf" THEN "leaf"
                                                             ELSE "tokens"]
    /\ pitem' = [pitem EXCEPT ![w] = NoItem]
    /\ UNCHANGED <<cancel, markVars, tableVars, mpc, pdone, pwin, pval, pdig,
                   consVars, histVars>>

Put(w) ==
    /\ ppc[w] = "put" /\ Len(queue) < QueueSize
    /\ queue' = Append(queue, pitem[w])
    /\ unfinished' = unfinished + 1
    /\ ppc' = [ppc EXCEPT ![w] = IF pitem[w].kind = "leaf" THEN "leaf"
                                                             ELSE "tokens"]
    /\ pitem' = [pitem EXCEPT ![w] = NoItem]
    /\ UNCHANGED <<cancel, markVars, tableVars, mpc, pdone, pwin, pval, pdig,
                   consVars, histVars>>

\* queue.Full: look at the flags and try again.
PutFull(w) ==
    /\ ppc[w] = "put" /\ Len(queue) = QueueSize
    /\ ppc' = [ppc EXCEPT ![w] = "check"]
    /\ UNCHANGED <<cancel, queueVars, markVars, tableVars, mpc, pdone, pwin,
                   pval, pdig, pitem, consVars, histVars>>

\* _fail records the error before it sets stop.
ProducerRecords(w) ==
    /\ ppc[w] = "fail"
    /\ RecordFirst("cancelled")
    /\ ppc' = [ppc EXCEPT ![w] = "stopping"]
    /\ UNCHANGED <<cancel, queueVars, producersDone, stop, tableVars, mpc,
                   pdone, pwin, pval, pdig, pitem, consVars, histVars>>

ProducerSetsStop(w) ==
    /\ ppc[w] = "stopping"
    /\ stop' = TRUE
    /\ ppc' = [ppc EXCEPT ![w] = "exit"]
    /\ UNCHANGED <<cancel, queueVars, producersDone, error, tableVars, mpc,
                   pdone, pwin, pval, pdig, pitem, consVars, histVars>>

ProducerStep(w) ==
    \/ BeginPlan(w) \/ ChunkDone(w) \/ NextWindow(w) \/ ScanTokens(w)
    \/ NextBatch(w) \/ NextToken(w) \/ PlanDone(w)
    \/ ProducerStops(w) \/ CheckPut(w) \/ Put(w) \/ PutFull(w)
    \/ ProducerRecords(w) \/ ProducerSetsStop(w)

-----------------------------------------------------------------------------
(* The consumers.                                                          *)

Get(c) ==
    /\ cpc[c] = "get" /\ queue # << >>
    /\ citem' = [citem EXCEPT ![c] = Head(queue)]
    /\ queue' = Tail(queue)
    /\ cpc' = [cpc EXCEPT ![c] = "item"]
    /\ UNCHANGED <<cancel, unfinished, markVars, tableVars, mpc, prodVars,
                   cerr, histVars>>

GetTimesOut(c) ==
    /\ cpc[c] = "get" /\ queue = << >>
    /\ cpc' = [cpc EXCEPT ![c] = "empty"]
    /\ UNCHANGED <<cancel, queueVars, markVars, tableVars, mpc, prodVars,
                   citem, cerr, histVars>>

\* Fault: the mark is not read.
WaitOn(c) ==
    /\ cpc[c] = "empty"
    /\ cpc' = [cpc EXCEPT ![c] = "get"]
    /\ UNCHANGED <<cancel, queueVars, markVars, tableVars, mpc, prodVars,
                   citem, cerr, histVars>>

\* After Empty the mark is read; the queue is not looked at again.
LeaveOrWait(c) ==
    /\ cpc[c] = "empty"
    /\ cpc' = [cpc EXCEPT ![c] = IF producersDone THEN "exit" ELSE "get"]
    /\ UNCHANGED <<cancel, queueVars, markVars, tableVars, mpc, prodVars,
                   citem, cerr, histVars>>

\* Fault: an item discarded after stop is not accounted for.
DiscardUncounted(c) ==
    /\ cpc[c] = "item" /\ stop
    /\ cpc' = [cpc EXCEPT ![c] = "get"]
    /\ UNCHANGED <<cancel, queueVars, markVars, tableVars, mpc, prodVars,
                   citem, cerr, histVars>>

\* Once stop is set an item is only accounted for.
Discard(c) ==
    /\ cpc[c] = "item" /\ stop
    /\ cpc' = [cpc EXCEPT ![c] = "done"]
    /\ UNCHANGED <<cancel, queueVars, markVars, tableVars, mpc, prodVars,
                   citem, cerr, histVars>>

Raise(c, e) == /\ cerr' = [cerr EXCEPT ![c] = e]
               /\ cpc' = [cpc EXCEPT ![c] = "fail"]

ConsumerStops(c) ==
    /\ cpc[c] = "item" /\ ~stop /\ cancel
    /\ stop' = TRUE
    /\ Raise(c, "cancelled")
    /\ UNCHANGED <<cancel, queueVars, producersDone, error, tableVars, mpc,
                   prodVars, citem, histVars>>

BeginItem(c) ==
    /\ cpc[c] = "item" /\ ~stop /\ ~cancel
    /\ cpc' = [cpc EXCEPT ![c] = "work"]
    /\ UNCHANGED <<cancel, queueVars, markVars, tableVars, mpc, prodVars,
                   citem, cerr, histVars>>

Count(f, S) == [t \in Tokens |-> IF t \in S THEN f[t] + 1 ELSE f[t]]

\* token_digest looks the token up first, and gives up the lock for the call.
LookUpDigest(c) ==
    /\ cpc[c] = "work" /\ citem[c].kind = "tokdig"
    /\ IF citem[c].toks \subseteq memoDigest
       THEN /\ digests' = digests \cup citem[c].toks
            /\ cpc' = [cpc EXCEPT ![c] = "done"]
       ELSE /\ cpc' = [cpc EXCEPT ![c] = "call"]
            /\ UNCHANGED digests
    /\ UNCHANGED <<cancel, queueVars, markVars, leaves, submitted, memoValid,
                   memoDigest, mpc, prodVars, citem, cerr, histVars>>

Calling(c) == \/ cpc[c] = "work" /\ citem[c].kind # "tokdig"
              \/ cpc[c] = "call"

\* The kernel call of the item, and its result entered under a lock.
DoItem(c) ==
    /\ Calling(c)
    /\ LET item == citem[c] IN
         \/ /\ item.kind = "leaf"
            /\ leaves' = leaves \cup {<<item.plan, item.seq>>}
            /\ UNCHANGED <<digests, memoValid, memoDigest, histVars>>
         \/ /\ item.kind = "tokval"
            /\ memoValid' = memoValid \cup item.toks
            /\ validated' = Count(validated, item.toks)
            /\ UNCHANGED <<leaves, digests, memoDigest, digested>>
         \/ /\ item.kind = "tokdig"
            /\ memoDigest' = memoDigest \cup item.toks
            /\ digests' = digests \cup item.toks
            /\ digested' = Count(digested, item.toks)
            /\ UNCHANGED <<leaves, memoValid, validated>>
    /\ cpc' = [cpc EXCEPT ![c] = "done"]
    /\ UNCHANGED <<cancel, queueVars, markVars, submitted, mpc, prodVars,
                   citem, cerr>>

\* Fault: the error of a kernel call is swallowed.
KernelErrorIgnored(c) ==
    /\ Calling(c)
    /\ cpc' = [cpc EXCEPT ![c] = "done"]
    /\ UNCHANGED <<cancel, queueVars, markVars, tableVars, mpc, prodVars,
                   citem, cerr, histVars>>

KernelFails(c) ==
    /\ Calling(c)
    /\ Raise(c, "failed")
    /\ UNCHANGED <<cancel, queueVars, markVars, tableVars, mpc, prodVars,
                   citem, histVars>>

\* Fault: stop is set before the error is recorded.
ConsumerStopsFirst(c) ==
    /\ cpc[c] = "fail"
    /\ stop' = TRUE
    /\ \/ ~stop /\ UNCHANGED <<error, cpc>>
       \/ stop /\ RecordFirst(cerr[c]) /\ cpc' = [cpc EXCEPT ![c] = "stopping"]
    /\ UNCHANGED <<cancel, queueVars, producersDone, tableVars, mpc, prodVars,
                   citem, cerr, histVars>>

ConsumerRecords(c) ==
    /\ cpc[c] = "fail"
    /\ RecordFirst(cerr[c])
    /\ cpc' = [cpc EXCEPT ![c] = "stopping"]
    /\ UNCHANGED <<cancel, queueVars, producersDone, stop, tableVars, mpc,
                   prodVars, citem, cerr, histVars>>

ConsumerSetsStop(c) ==
    /\ cpc[c] = "stopping"
    /\ stop' = TRUE
    /\ cpc' = [cpc EXCEPT ![c] = "done"]
    /\ UNCHANGED <<cancel, queueVars, producersDone, error, tableVars, mpc,
                   prodVars, citem, cerr, histVars>>

\* The finally clause: whatever was taken out is accounted for.
TaskDone(c) ==
    /\ cpc[c] = "done"
    /\ unfinished' = unfinished - 1
    /\ cpc' = [cpc EXCEPT ![c] = "get"]
    /\ citem' = [citem EXCEPT ![c] = NoItem]
    /\ cerr' = [cerr EXCEPT ![c] = "none"]
    /\ UNCHANGED <<cancel, queue, markVars, tableVars, mpc, prodVars,
                   histVars>>

ConsumerStep(c) ==
    \/ Get(c) \/ GetTimesOut(c) \/ LeaveOrWait(c) \/ Discard(c)
    \/ ConsumerStops(c) \/ BeginItem(c) \/ LookUpDigest(c) \/ DoItem(c)
    \/ KernelFails(c) \/ ConsumerRecords(c) \/ ConsumerSetsStop(c)
    \/ TaskDone(c)

-----------------------------------------------------------------------------
(* The caller.                                                             *)

ProducersDone ==
    /\ mpc = "produce" /\ \A w \in Producers : ppc[w] = "exit"
    /\ producersDone' = TRUE
    /\ mpc' = "join"
    /\ UNCHANGED <<cancel, queueVars, stop, error, tableVars, prodVars,
                   consVars, histVars>>

JoinQueue ==
    /\ mpc = "join" /\ unfinished = 0
    /\ mpc' = "consumers"
    /\ UNCHANGED <<cancel, queueVars, markVars, tableVars, prodVars, consVars,
                   histVars>>

\* Every consumer has returned: the first error is raised, or the results
\* are assembled.
JoinConsumers ==
    /\ mpc = "consumers" /\ \A c \in Consumers : cpc[c] = "exit"
    /\ mpc' = IF error = "none" THEN "done" ELSE "raised"
    /\ UNCHANGED <<cancel, queueVars, markVars, tableVars, prodVars, consVars,
                   histVars>>

MainStep == ProducersDone \/ JoinQueue \/ JoinConsumers

-----------------------------------------------------------------------------
Next == \/ Cancel
        \/ MainStep
        \/ \E w \in Producers : ProducerStep(w)
        \/ \E c \in Consumers : ConsumerStep(c)

Spec == Init /\ [][Next]_vars

\* Threads that can run are scheduled, kernel calls end, timed waits time out.
FairSpec == /\ Spec
            /\ WF_vars(MainStep)
            /\ \A w \in Producers : WF_vars(ProducerStep(w))
            /\ \A c \in Consumers : WF_vars(ConsumerStep(c))

-----------------------------------------------------------------------------
(* Properties.                                                             *)

\* The drain protocol: the queue's count of unfinished tasks is what is queued
\* and what consumers have in hand, discarded and failed items included.
DrainAccounts ==
    unfinished =
        Len(queue) + Cardinality({c \in Consumers : cpc[c] \in Holding})

\* A build that raises nothing has every leaf, every token's verdict and every
\* token's digest, whoever was to compute it: _assemble neither misses a leaf
\* or a digest nor drops a term because its verdict is not there.
Complete ==
    mpc = "done" => \A p \in Plans :
        /\ \A i \in 0 .. Windows[p] - 1 : <<p, i>> \in leaves
        /\ PlanTokens[p] \subseteq memoValid
        /\ PlanTokens[p] \subseteq digests \cup memoDigest

\* A build nobody cancelled never reports a cancellation: the failure that made
\* the threads stop is recorded before any of them can see the stop.
CauseReported == error = "cancelled" => cancel

\* The digest of a token is computed at most once, however many files share it
\* and whichever threads plan them.
DigestedOnce == \A t \in Tokens : digested[t] <= 1

\* The caller waits for items no consumer is left to take.
Stranded == /\ mpc = "join" /\ unfinished > 0
            /\ \A c \in Consumers : cpc[c] = "exit"

\* Every build ends, unless the consumers left before the last items came:
\* there is no other way to wait for ever, whatever fails or is cancelled.
EndsOrStrands == (mpc = "produce") ~> (Ended \/ Stranded)

-----------------------------------------------------------------------------
(* A claim of the code's comments that the code does not keep.             *)

\* "so work.join() always terminates and a failed/cancelled build can never
\* hang the pipeline" (comment in `consume`).
JoinTerminates == ~Stranded

=============================================================================
