------------------------- MODULE TradeNotifierProofs -------------------------
(***************************************************************************)
(* AnnouncedOnce and NumbersTellLoss for any number of workers, trades,    *)
(* users and faults.                                                       *)
(*                                                                         *)
(* AnnouncedOnce counts messages that were sent and is not inductive: a    *)
(* message is about to be sent by every task that got past its claim with  *)
(* the trade in its batch.  Budget counts those tasks too, and lets a      *)
(* claim that is still there pay for one of them.                          *)
(*                                                                         *)
(* NumbersTellLoss needs to know where a number can be: a task holds one   *)
(* for exactly the trades it is about to send, a pass that has a           *)
(* transaction open is not sending, and a batch is numbered in the order   *)
(* of its rows, each rank once.                                            *)
(***************************************************************************)
EXTENDS TradeNotifierProperties, SumProofs

TaskType == [at : Stage, batch : SUBSET Trade, seq : [Trade -> Nat]]
Tasks == [Worker \X Kind -> TaskType]

Typed ==
    /\ task \in Tasks
    /\ open \in [Worker -> Trade \cup {NoTrade}]
    /\ localSeq \in [Worker -> [User -> Nat]]
    /\ counter \in [User -> Nat]
    /\ sent \in [Trade -> Seq(Nat)]
    /\ lapses \in [Trade -> Nat]
    /\ faults \in Nat

\* The tasks that will send t unless they crash.
Holders(t) ==
    {h \in Worker \X Kind : /\ task[h].at \in {"number", "send"}
                            /\ t \in task[h].batch}

Credit(t) == (IF t \in claimed THEN 1 ELSE 0) + lapses[t] + faults

Budget == \A t \in Trade : Len(sent[t]) + Cardinality(Holders(t)) <= Credit(t)

IInv == Typed /\ Budget

-----------------------------------------------------------------------------
(* Counting *)

\* There are finitely many tasks.
LEMMA TasksAreFinite == IsFiniteSet(Worker \X Kind)
<1>1. IsFiniteSet(Kind)
  <2>1. Kind = {"pass"} \cup {"poll"}
    BY DEF Kind
  <2>2. IsFiniteSet({"pass"}) /\ IsFiniteSet({"poll"})
    BY FS_Singleton
  <2> QED BY <2>1, <2>2, FS_Union
<1> QED BY <1>1, NotifierAssumption, FS_Product DEF NotifierAssumption

\* So there are finitely many holders of a trade.
LEMMA HoldersCount ==
    \A t : /\ IsFiniteSet(Holders(t)) /\ Cardinality(Holders(t)) \in Nat
           /\ IsFiniteSet(Holders(t)') /\ Cardinality(Holders(t)') \in Nat
<1> TAKE t
<1>1. Holders(t) \subseteq Worker \X Kind /\ Holders(t)' \subseteq Worker \X Kind
  BY DEF Holders
<1> QED BY <1>1, TasksAreFinite, FS_Subset, FS_CardinalityType

\* A part has at most as many members.
LEMMA CountFewer ==
    ASSUME NEW S, NEW R, IsFiniteSet(S), R \subseteq S
    PROVE  /\ IsFiniteSet(R) /\ Cardinality(R) \in Nat /\ Cardinality(S) \in Nat
           /\ Cardinality(R) <= Cardinality(S)
BY FS_Subset, FS_CardinalityType

\* One candidate more makes at most one member more.
LEMMA CountOneMore ==
    ASSUME NEW S, NEW R, NEW x, IsFiniteSet(S), R \subseteq S \cup {x}
    PROVE  Cardinality(R) <= Cardinality(S) + 1
<1>1. /\ IsFiniteSet(S \cup {x})
      /\ Cardinality(S \cup {x}) = IF x \in S THEN Cardinality(S) ELSE Cardinality(S) + 1
  BY FS_AddElement
<1>2. Cardinality(R) <= Cardinality(S \cup {x}) /\ Cardinality(R) \in Nat
  BY <1>1, CountFewer
<1> QED BY <1>1, <1>2, FS_CardinalityType

\* A part without a member has at least one member less.
LEMMA CountOneLess ==
    ASSUME NEW S, NEW R, NEW x, IsFiniteSet(S), x \in S, R \subseteq S \ {x}
    PROVE  Cardinality(R) + 1 <= Cardinality(S)
<1>1. /\ IsFiniteSet(S \ {x})
      /\ Cardinality(S \ {x}) = Cardinality(S) - 1
  BY FS_RemoveElement
<1>2. Cardinality(R) <= Cardinality(S \ {x}) /\ Cardinality(R) \in Nat
  BY <1>1, CountFewer
<1> QED BY <1>1, <1>2, FS_CardinalityType

\* Numbering a batch yields numbers.
LEMMA NumberTypes ==
    ASSUME NEW S \in SUBSET Trade, NEW base \in [User -> Nat]
    PROVE  /\ Numbered(S, base) \in [Trade -> Nat]
           /\ Counted(S, base) \in [User -> Nat]
<1>1. \A R \in SUBSET Trade : Cardinality(R) \in Nat
  BY NotifierAssumption, FS_Subset, FS_CardinalityType DEF NotifierAssumption
<1>2. ASSUME NEW t \in S
      PROVE  base[Owner[t]] + 1 + Cardinality({u \in SameChannel(S, t) : Before(u, t)}) \in Nat
  <2>1. {u \in SameChannel(S, t) : Before(u, t)} \in SUBSET Trade
    BY DEF SameChannel
  <2>2. base[Owner[t]] \in Nat
    BY NotifierAssumption DEF NotifierAssumption
  <2> HIDE DEF SameChannel, Before
  <2> QED BY <1>1, <2>1, <2>2
<1>3. ASSUME NEW u \in User
      PROVE  base[u] + Cardinality({t \in S : Owner[t] = u}) \in Nat
  <2>1. {t \in S : Owner[t] = u} \in SUBSET Trade
    OBVIOUS
  <2> QED BY <1>1, <2>1
<1>4. Numbered(S, base) \in [Trade -> Nat]
  BY <1>2 DEF Numbered
<1>5. Counted(S, base) \in [User -> Nat]
  BY <1>3 DEF Counted
<1> QED BY <1>4, <1>5
-----------------------------------------------------------------------------
(* Types *)

\* A task at rest is a task.
LEMMA RestTyped ==
    /\ "pass" \in Kind /\ "poll" \in Kind
    /\ NoSeq \in [Trade -> Nat]
    /\ Rest \in TaskType
BY DEF Kind, Stage, NoSeq, Rest, TaskType

\* At first everything is empty.
LEMMA InitTyped == Init => Typed
BY RestTyped DEF Init, Typed, Tasks

\* The parts of a task.
LEMMA TaskParts ==
    ASSUME NEW w \in Worker, NEW k \in Kind, task \in Tasks
    PROVE  /\ task[<<w, k>>].at \in Stage
           /\ task[<<w, k>>].batch \in SUBSET Trade
           /\ task[<<w, k>>].seq \in [Trade -> Nat]
<1>1. <<w, k>> \in Worker \X Kind
  OBVIOUS
<1>2. task[<<w, k>>] \in TaskType
  BY <1>1 DEF Tasks
<1> QED BY <1>2 DEF TaskType

\* A task that goes on stays a task.
LEMMA GoesTyped ==
    ASSUME NEW w \in Worker, NEW k \in Kind, NEW at \in Stage, NEW S \in SUBSET Trade,
           NEW seq \in [Trade -> Nat], task \in Tasks, Goes(w, k, at, S, seq)
    PROVE  task' \in Tasks
<1>1. [at |-> at, batch |-> S, seq |-> seq] \in TaskType
  BY DEF TaskType
<1> QED BY <1>1 DEF Goes, Tasks

\* So does one that keeps what it has in hand.
LEMMA BecomesTyped ==
    ASSUME NEW w \in Worker, NEW k \in Kind, NEW at \in Stage, task \in Tasks,
           Becomes(w, k, at)
    PROVE  task' \in Tasks
BY TaskParts, GoesTyped DEF Becomes

\* Every step leaves the tasks what they are: a place, trades and numbers.
LEMMA StepTasks == Typed /\ [Next]_vars => task' \in Tasks
<1> SUFFICES ASSUME Typed, [Next]_vars PROVE task' \in Tasks
  OBVIOUS
<1>0. task \in Tasks
  BY DEF Typed
<1>1. ASSUME NEW w \in Worker, Begin(w) PROVE task' \in Tasks
  BY <1>1, <1>0 DEF Begin
<1>2. ASSUME NEW w \in Worker, Commit(w) PROVE task' \in Tasks
  <2>1. task[<<w, "pass">>].batch \cup {open[w]} \in SUBSET Trade
    BY <1>0, <1>2, TaskParts, RestTyped DEF Commit, Typed
  <2> QED BY <1>0, <1>2, <2>1, GoesTyped, RestTyped DEF Commit, Stage
<1>3. ASSUME NEW w \in Worker, PassFails(w) PROVE task' \in Tasks
  BY <1>0, <1>3, GoesTyped, RestTyped DEF PassFails, Stage
<1>4. ASSUME NEW w \in Worker, NEW k \in Kind, Claim(w, k) PROVE task' \in Tasks
  <2>1. Unclaimed(task[<<w, k>>].batch) \in SUBSET Trade
    BY <1>0, TaskParts DEF Unclaimed
  <2>2. Goes(w, k, "number", Unclaimed(task[<<w, k>>].batch), NoSeq) \/ Becomes(w, k, "number")
    BY <1>4 DEF Claim
  <2> QED BY <1>0, <2>1, <2>2, GoesTyped, BecomesTyped, RestTyped DEF Stage
<1>5. ASSUME NEW w \in Worker, NEW k \in Kind, Number(w, k) PROVE task' \in Tasks
  <2> DEFINE batch == task[<<w, k>>].batch
             at == IF batch = {} THEN "save" ELSE "send"
  <2>1. batch \in SUBSET Trade /\ at \in Stage
    BY <1>0, TaskParts DEF Stage
  <2>2. /\ Numbered(batch, counter) \in [Trade -> Nat]
        /\ Numbered(batch, localSeq[w]) \in [Trade -> Nat]
    BY <2>1, NumberTypes DEF Typed
  <2>3. \/ Goes(w, k, at, batch, Numbered(batch, counter))
        \/ Goes(w, k, at, batch, Numbered(batch, localSeq[w]))
    BY <1>5 DEF Number
  <2> HIDE DEF batch, at
  <2> QED BY <1>0, <2>1, <2>2, <2>3, GoesTyped
<1>6. ASSUME NEW w \in Worker, NEW k \in Kind, Send(w, k) PROVE task' \in Tasks
  <2> DEFINE batch == task[<<w, k>>].batch
             at(t) == IF batch = {t} THEN "save" ELSE "send"
             seq(t) == [task[<<w, k>>].seq EXCEPT ![t] = 0]
  <2>1. PICK t \in batch : Goes(w, k, at(t), batch \ {t}, seq(t))
    BY <1>6 DEF Send
  <2>2. at(t) \in Stage /\ batch \ {t} \in SUBSET Trade /\ seq(t) \in [Trade -> Nat]
    BY <1>0, TaskParts DEF Stage
  <2> HIDE DEF batch, at, seq
  <2> QED BY <1>0, <2>1, <2>2, GoesTyped
<1>7. ASSUME NEW w \in Worker, NEW k \in Kind, Save(w, k) PROVE task' \in Tasks
  BY <1>0, <1>7, BecomesTyped DEF Save, Stage
<1>8. ASSUME NEW w \in Worker, Lead(w) \/ Load(w) \/ Keep(w) PROVE task' \in Tasks
  BY <1>0, <1>8, BecomesTyped, RestTyped DEF Lead, Load, Keep, Stage
<1>9. ASSUME NEW w \in Worker, ReadFails(w) PROVE task' \in Tasks
  BY <1>0, <1>9, GoesTyped, RestTyped DEF ReadFails, Stage
<1>10. ASSUME NEW w \in Worker, Read(w) PROVE task' \in Tasks
  <2>1. Rows(mark[w]) \in SUBSET Trade
    BY DEF Rows, Window, Committed
  <2> QED BY <1>0, <1>10, <2>1, GoesTyped, RestTyped DEF Read, Stage
<1>11. ASSUME NEW w \in Worker, Check(w) PROVE task' \in Tasks
  <2> DEFINE fresh == task[<<w, "poll">>].batch \ seen[w]
             at(S) == IF S = {} THEN "keep" ELSE "claim"
  <2>1. fresh \in SUBSET Trade /\ Unclaimed(fresh) \in SUBSET Trade
    BY <1>0, TaskParts, RestTyped DEF Unclaimed
  <2>2. \A S : at(S) \in Stage
    BY DEF Stage
  <2>3. \/ Goes(w, "poll", at(fresh), fresh, NoSeq)
        \/ Goes(w, "poll", at(Unclaimed(fresh)), Unclaimed(fresh), NoSeq)
    BY <1>11 DEF Check
  <2> HIDE DEF at, fresh
  <2> QED BY <1>0, <2>1, <2>2, <2>3, GoesTyped, RestTyped
<1>12. ASSUME NEW w \in Worker, Crash(w) PROVE task' \in Tasks
  BY <1>0, <1>12, RestTyped DEF Crash, Tasks
<1>13. ASSUME NEW w \in Worker, Follow(w) PROVE task' \in Tasks
  BY <1>0, <1>13 DEF Follow
<1>14. ASSUME NEW t \in Trade, ClaimLapses(t) PROVE task' \in Tasks
  BY <1>0, <1>14 DEF ClaimLapses
<1>15. CASE LockLapses \/ Tick \/ UNCHANGED vars
  BY <1>0, <1>15 DEF LockLapses, Tick, vars
<1> QED BY <1>1, <1>2, <1>3, <1>4, <1>5, <1>6, <1>7, <1>8, <1>9, <1>10, <1>11, <1>12,
           <1>13, <1>14, <1>15 DEF Next, Push, Poll

\* What a step does to the other variables that are typed here.
LEMMA StepOthers ==
    Typed /\ [Next]_vars =>
        /\ open' \in [Worker -> Trade \cup {NoTrade}]
        /\ localSeq' \in [Worker -> [User -> Nat]]
        /\ counter' \in [User -> Nat]
        /\ sent' \in [Trade -> Seq(Nat)]
        /\ lapses' \in [Trade -> Nat]
        /\ faults' \in Nat
<1> DEFINE Others == <<open, localSeq, counter, sent, lapses>>
           P == /\ open' \in [Worker -> Trade \cup {NoTrade}]
                /\ localSeq' \in [Worker -> [User -> Nat]]
                /\ counter' \in [User -> Nat]
                /\ sent' \in [Trade -> Seq(Nat)]
                /\ lapses' \in [Trade -> Nat]
                /\ faults' \in Nat
<1> SUFFICES ASSUME Typed, [Next]_vars PROVE P
  OBVIOUS
<1>0. /\ open \in [Worker -> Trade \cup {NoTrade}]
      /\ localSeq \in [Worker -> [User -> Nat]]
      /\ counter \in [User -> Nat]
      /\ sent \in [Trade -> Seq(Nat)]
      /\ lapses \in [Trade -> Nat]
      /\ faults \in Nat
      /\ task \in Tasks
  BY DEF Typed
<1>a. faults' = faults \/ Fault => faults' \in Nat
  BY <1>0 DEF Fault
<1>b. UNCHANGED Others /\ faults' \in Nat => P
  BY <1>0
<1>c. UNCHANGED <<localSeq, counter, sent, lapses, faults>>
        /\ open' \in [Worker -> Trade \cup {NoTrade}] => P
  BY <1>0
<1>1. ASSUME NEW w \in Worker, Begin(w) PROVE P
  BY <1>0, <1>1, <1>c DEF Begin, local, redis, count
<1>2. ASSUME NEW w \in Worker, Commit(w) \/ PassFails(w) PROVE P
  BY <1>0, <1>2, <1>c DEF Commit, PassFails, local, redis, count
<1>3. ASSUME NEW w \in Worker, NEW k \in Kind, Claim(w, k) PROVE P
  BY <1>3, <1>a, <1>b DEF Claim, local
<1>4. ASSUME NEW w \in Worker, NEW k \in Kind, Number(w, k) PROVE P
  <2> DEFINE batch == task[<<w, k>>].batch
  <2>1. /\ Counted(batch, counter) \in [User -> Nat]
        /\ Counted(batch, localSeq[w]) \in [User -> Nat]
    BY <1>0, TaskParts, NumberTypes
  <2>2. /\ UNCHANGED <<open, sent, lapses>>
        /\ faults' = faults \/ Fault
        /\ counter' \in {counter, Counted(batch, counter)}
        /\ localSeq' \in {localSeq, [localSeq EXCEPT ![w] = Counted(batch, localSeq[w])]}
    BY <1>4 DEF Number
  <2> HIDE DEF batch
  <2> QED BY <1>0, <1>a, <2>1, <2>2
<1>5. ASSUME NEW w \in Worker, NEW k \in Kind, Send(w, k) PROVE P
  <2>1. PICK t \in task[<<w, k>>].batch :
          sent' = [sent EXCEPT ![t] = Append(@, task[<<w, k>>].seq[t])]
    BY <1>5 DEF Send
  <2>2. UNCHANGED <<open, localSeq, counter, lapses, faults>>
    BY <1>5 DEF Send, redis, count
  <2>3. t \in Trade /\ task[<<w, k>>].seq[t] \in Nat
    BY <1>0, TaskParts
  <2> QED BY <1>0, <2>1, <2>2, <2>3
<1>6. ASSUME NEW w \in Worker, NEW k \in Kind, Save(w, k) PROVE P
  BY <1>6, <1>a, <1>b DEF Save, Persist, local
<1>7. ASSUME NEW w \in Worker, Lead(w) \/ Read(w) PROVE P
  BY <1>0, <1>7, <1>b DEF Lead, Read, local, redis, count
<1>8. ASSUME NEW w \in Worker, Follow(w) \/ Load(w) PROVE P
  BY <1>8, <1>a, <1>b DEF Follow, Load, redis
<1>9. ASSUME NEW w \in Worker, ReadFails(w) \/ Keep(w) PROVE P
  BY <1>9, <1>a, <1>b DEF ReadFails, Keep, Persist, local, redis
<1>10. ASSUME NEW w \in Worker, Check(w) PROVE P
  BY <1>10, <1>a, <1>b DEF Check, redis
<1>11. ASSUME NEW w \in Worker, Crash(w) PROVE P
  <2>1. UNCHANGED <<counter, sent, lapses, faults>>
    BY <1>11 DEF Crash
  <2>2. open' = [open EXCEPT ![w] = NoTrade]
        /\ localSeq' = [localSeq EXCEPT ![w] = [u \in User |-> 0]]
    BY <1>11 DEF Crash
  <2> QED BY <1>0, <2>1, <2>2
<1>12. ASSUME NEW t \in Trade, ClaimLapses(t) PROVE P
  <2>1. UNCHANGED <<open, localSeq, counter, sent, faults>>
    BY <1>12 DEF ClaimLapses, local
  <2>2. lapses' = [lapses EXCEPT ![t] = @ + 1]
    BY <1>12 DEF ClaimLapses
  <2> QED BY <1>0, <2>1, <2>2
<1>13. CASE LockLapses \/ Tick \/ UNCHANGED vars
  BY <1>0, <1>13, <1>b DEF LockLapses, Tick, vars, local, redis, count
<1> QED BY <1>1, <1>2, <1>3, <1>4, <1>5, <1>6, <1>7, <1>8, <1>9, <1>10, <1>11, <1>12, <1>13
           DEF Next, Push, Poll

\* Every step keeps the types.
LEMMA StepTyped == Typed /\ [Next]_vars => Typed'
BY StepTasks, StepOthers DEF Typed

-----------------------------------------------------------------------------
(* The budget *)

\* A step of one task makes at most that task a holder, of its batch only.
LEMMA GoesHolders ==
    ASSUME NEW w \in Worker, NEW k \in Kind, NEW at, NEW S, NEW seq, task \in Tasks,
           Goes(w, k, at, S, seq)
    PROVE  \A t : /\ Holders(t)' \subseteq Holders(t) \cup {<<w, k>>}
                  /\ at \notin {"number", "send"} \/ t \notin S
                       => Holders(t)' \subseteq Holders(t) \ {<<w, k>>}
<1>1. \A h \in Worker \X Kind :
        task'[h] = IF h = <<w, k>> THEN [at |-> at, batch |-> S, seq |-> seq] ELSE task[h]
  BY DEF Goes, Tasks
<1> QED BY <1>1 DEF Holders

\* A task that keeps its batch and was a holder makes no new one.
LEMMA BecomesHolders ==
    ASSUME NEW w \in Worker, NEW k \in Kind, NEW at, task \in Tasks, Becomes(w, k, at),
           at \notin {"number", "send"} \/ task[<<w, k>>].at \in {"number", "send"}
    PROVE  \A t : Holders(t)' \subseteq Holders(t)
<1>1. \A h \in Worker \X Kind :
        task'[h] = IF h = <<w, k>>
                   THEN [at |-> at, batch |-> task[<<w, k>>].batch, seq |-> task[<<w, k>>].seq]
                   ELSE task[h]
  BY DEF Becomes, Goes, Tasks
<1> QED BY <1>1 DEF Holders

\* What the budget counts are numbers.
LEMMA BudgetTypes ==
    ASSUME Typed, NEW t \in Trade
    PROVE  /\ Len(sent[t]) \in Nat
           /\ Cardinality(Holders(t)) \in Nat
           /\ IsFiniteSet(Holders(t))
           /\ Credit(t) \in Nat
           /\ lapses[t] \in Nat /\ faults \in Nat
BY HoldersCount DEF Typed, Credit

\* A step that sends nothing, adds no holder and takes no credit.
LEMMA Harmless ==
    ASSUME IInv, Typed', sent' = sent,
           \A t \in Trade : Holders(t)' \subseteq Holders(t),
           claimed \subseteq claimed', lapses' = lapses, faults' \in {faults, faults + 1}
    PROVE  Budget'
<1> SUFFICES ASSUME NEW t \in Trade
             PROVE  Len(sent'[t]) + Cardinality(Holders(t)') <= Credit(t)'
  BY DEF Budget
<1>1. Cardinality(Holders(t)') <= Cardinality(Holders(t)) /\ Cardinality(Holders(t)') \in Nat
  BY BudgetTypes, CountFewer DEF IInv
<1>2. Credit(t) <= Credit(t)' /\ Credit(t)' \in Nat
  <2>1. lapses[t] \in Nat /\ faults \in Nat
    BY BudgetTypes DEF IInv
  <2> QED BY <2>1 DEF Credit
<1>3. Len(sent[t]) + Cardinality(Holders(t)) <= Credit(t)
  BY DEF IInv, Budget
<1> QED BY <1>1, <1>2, <1>3, BudgetTypes DEF IInv

\* A claim that succeeds pays for its holder, a call that raises is a fault.
LEMMA ClaimBudget ==
    ASSUME IInv, Typed', NEW w \in Worker, NEW k \in Kind, Claim(w, k)
    PROVE  Budget'
<1> DEFINE batch == task[<<w, k>>].batch
           got == Unclaimed(batch)
<1>0. /\ sent' = sent /\ lapses' = lapses /\ task \in Tasks
      /\ \/ /\ claimed' = claimed \cup got /\ faults' = faults
            /\ Goes(w, k, "number", got, NoSeq)
         \/ /\ claimed \subseteq claimed' /\ faults' = faults + 1
            /\ Goes(w, k, "number", batch, task[<<w, k>>].seq)
  BY DEF Claim, IInv, Typed, Fault, Becomes
<1> SUFFICES ASSUME NEW t \in Trade
             PROVE  Len(sent'[t]) + Cardinality(Holders(t)') <= Credit(t)'
  BY DEF Budget
<1>1. /\ Len(sent[t]) \in Nat /\ Cardinality(Holders(t)) \in Nat
      /\ Cardinality(Holders(t)') \in Nat
      /\ lapses[t] \in Nat /\ faults \in Nat
      /\ Len(sent[t]) + Cardinality(Holders(t)) <= Credit(t)
  BY BudgetTypes, HoldersCount DEF IInv, Budget
<1>2. CASE t \notin got /\ claimed' = claimed \cup got /\ faults' = faults
  <2>1. Holders(t)' \subseteq Holders(t)
    BY <1>0, <1>1, <1>2, GoesHolders
  <2>2. Cardinality(Holders(t)') <= Cardinality(Holders(t))
    BY <2>1, HoldersCount, CountFewer
  <2>3. Credit(t)' = Credit(t)
    BY <1>0, <1>2 DEF Credit
  <2> QED BY <1>0, <1>1, <2>2, <2>3 DEF Credit
<1>3. CASE t \in got /\ claimed' = claimed \cup got /\ faults' = faults
  <2>1. Cardinality(Holders(t)') <= Cardinality(Holders(t)) + 1
    BY <1>0, GoesHolders, HoldersCount, CountOneMore
  <2>2. t \notin claimed /\ t \in claimed'
    BY <1>3 DEF Unclaimed
  <2>3. Credit(t)' = Credit(t) + 1
    BY <1>0, <1>1, <1>3, <2>2 DEF Credit
  <2> QED BY <1>0, <1>1, <2>1, <2>3 DEF Credit
<1>4. CASE claimed \subseteq claimed' /\ faults' = faults + 1
  <2>1. Cardinality(Holders(t)') <= Cardinality(Holders(t)) + 1
    BY <1>0, GoesHolders, HoldersCount, CountOneMore
  <2>2. Credit(t)' >= Credit(t) + 1
    BY <1>0, <1>1, <1>4 DEF Credit
  <2>3. Credit(t) \in Nat /\ Credit(t)' \in Nat
    BY <1>0, <1>1, <1>4 DEF Credit
  <2>4. Len(sent'[t]) = Len(sent[t])
    BY <1>0
  <2> QED BY <1>1, <2>1, <2>2, <2>3, <2>4
<1> QED BY <1>0, <1>2, <1>3, <1>4

\* A message that is sent has one holder less.
LEMMA SendBudget ==
    ASSUME IInv, Typed', NEW w \in Worker, NEW k \in Kind, Send(w, k)
    PROVE  Budget'
<1> DEFINE batch == task[<<w, k>>].batch
           at(x) == IF batch = {x} THEN "save" ELSE "send"
<1>1. PICK x \in batch :
        /\ sent' = [sent EXCEPT ![x] = Append(@, task[<<w, k>>].seq[x])]
        /\ Goes(w, k, at(x), batch \ {x}, [task[<<w, k>>].seq EXCEPT ![x] = 0])
  BY DEF Send
<1>2. /\ task[<<w, k>>].at = "send" /\ task \in Tasks
      /\ UNCHANGED <<claimed, lapses, faults>>
  BY DEF Send, IInv, Typed, redis, count
<1> HIDE DEF at
<1> SUFFICES ASSUME NEW t \in Trade
             PROVE  Len(sent'[t]) + Cardinality(Holders(t)') <= Credit(t)'
  BY DEF Budget
<1>3. Credit(t)' = Credit(t)
  BY <1>2 DEF Credit
<1>4. /\ Len(sent[t]) \in Nat /\ Cardinality(Holders(t)) \in Nat /\ Credit(t) \in Nat
      /\ Cardinality(Holders(t)') \in Nat
      /\ Len(sent[t]) + Cardinality(Holders(t)) <= Credit(t)
  BY BudgetTypes, HoldersCount DEF IInv, Budget
<1>5. CASE t = x
  <2>1. <<w, k>> \in Holders(t)
    BY <1>1, <1>2, <1>5 DEF Holders
  <2>2. Holders(t)' \subseteq Holders(t) \ {<<w, k>>}
    BY <1>1, <1>2, <1>5, GoesHolders
  <2>3. Cardinality(Holders(t)') + 1 <= Cardinality(Holders(t))
    BY <2>1, <2>2, HoldersCount, CountOneLess
  <2>4. Len(sent'[t]) = Len(sent[t]) + 1
    <3>1. sent[t] \in Seq(Nat) /\ sent \in [Trade -> Seq(Nat)]
      BY DEF IInv, Typed
    <3>2. task[<<w, k>>].seq[x] \in Nat
      BY <1>2, <1>5, TaskParts
    <3> QED BY <1>1, <1>5, <3>1, <3>2
  <2> QED BY <1>3, <1>4, <2>3, <2>4
<1>6. CASE t # x
  <2>1. Holders(t)' \subseteq Holders(t)
    <3>1. <<w, k>> \in Holders(t) \/ t \notin batch
      BY <1>2 DEF Holders
    <3> QED BY <1>1, <1>2, <3>1, GoesHolders
  <2>2. Cardinality(Holders(t)') <= Cardinality(Holders(t))
    BY <2>1, HoldersCount, CountFewer
  <2>3. sent'[t] = sent[t]
    BY <1>1, <1>6 DEF IInv, Typed
  <2> QED BY <1>3, <1>4, <2>2, <2>3
<1> QED BY <1>5, <1>6

\* A claim that lapses is counted.
LEMMA LapseBudget ==
    ASSUME IInv, Typed', NEW x \in Trade, ClaimLapses(x)
    PROVE  Budget'
<1>1. /\ sent' = sent /\ task' = task /\ faults' = faults
      /\ claimed' = claimed \ {x}
      /\ lapses' = [lapses EXCEPT ![x] = @ + 1]
  BY DEF ClaimLapses
<1> SUFFICES ASSUME NEW t \in Trade
             PROVE  Len(sent'[t]) + Cardinality(Holders(t)') <= Credit(t)'
  BY DEF Budget
<1>2. Holders(t)' = Holders(t)
  BY <1>1 DEF Holders
<1>3. Credit(t) <= Credit(t)' /\ Credit(t)' \in Nat
  <2>1. lapses[t] \in Nat /\ faults \in Nat /\ lapses \in [Trade -> Nat]
    BY DEF IInv, Typed
  <2>2. lapses'[t] = IF t = x THEN lapses[t] + 1 ELSE lapses[t]
    BY <1>1, <2>1
  <2> QED BY <1>1, <2>1, <2>2 DEF Credit
<1>4. Len(sent[t]) + Cardinality(Holders(t)) <= Credit(t)
  BY DEF IInv, Budget
<1> QED BY <1>1, <1>2, <1>3, <1>4, BudgetTypes DEF IInv

\* No step overdraws the budget.
LEMMA StepBudget == IInv /\ [Next]_vars => Budget'
<1> SUFFICES ASSUME IInv, [Next]_vars PROVE Budget'
  OBVIOUS
<1>0. Typed' /\ task \in Tasks
  BY StepTyped DEF IInv, Typed
<1> DEFINE Calm == sent' = sent /\ claimed' = claimed /\ lapses' = lapses
           NoneGains == \A t \in Trade : Holders(t)' \subseteq Holders(t)
<1>a. Fault => faults' \in {faults, faults + 1}
  BY DEF Fault
<1>b. Calm /\ faults' \in {faults, faults + 1} /\ NoneGains => Budget'
  BY <1>0, Harmless
<1>c. ASSUME task' = task PROVE NoneGains
  BY <1>c DEF Holders
<1> HIDE DEF NoneGains
<1>1. ASSUME NEW w \in Worker, Begin(w) PROVE Budget'
  BY <1>1, <1>b, <1>c DEF Begin, redis, count
<1>2. ASSUME NEW w \in Worker, Commit(w) \/ PassFails(w) PROVE Budget'
  <2>1. NoneGains
    BY <1>0, <1>2, GoesHolders, RestTyped DEF Commit, PassFails, NoneGains
  <2> QED BY <1>2, <1>b, <2>1 DEF Commit, PassFails, redis, count
<1>3. ASSUME NEW w \in Worker, NEW k \in Kind, Claim(w, k) PROVE Budget'
  BY <1>0, <1>3, ClaimBudget
<1>4. ASSUME NEW w \in Worker, NEW k \in Kind, Number(w, k) PROVE Budget'
  <2> DEFINE batch == task[<<w, k>>].batch
             at == IF batch = {} THEN "save" ELSE "send"
  <2>1. /\ task[<<w, k>>].at = "number"
        /\ \/ Goes(w, k, at, batch, Numbered(batch, counter))
           \/ Goes(w, k, at, batch, Numbered(batch, localSeq[w]))
    BY <1>4 DEF Number
  <2>2. \A t : <<w, k>> \in Holders(t) \/ t \notin batch
    BY <2>1 DEF Holders
  <2> HIDE DEF at, batch
  <2>3. NoneGains
    BY <1>0, <2>1, <2>2, GoesHolders DEF NoneGains
  <2>4. Calm /\ faults' \in {faults, faults + 1}
    BY <1>4, <1>a DEF Number
  <2> QED BY <1>b, <2>3, <2>4
<1>5. ASSUME NEW w \in Worker, NEW k \in Kind, Send(w, k) PROVE Budget'
  BY <1>0, <1>5, SendBudget
<1>6. ASSUME NEW w \in Worker, NEW k \in Kind, Save(w, k) PROVE Budget'
  <2>1. NoneGains
    BY <1>0, <1>6, BecomesHolders DEF Save, NoneGains
  <2>2. Calm /\ faults' \in {faults, faults + 1}
    BY <1>6, <1>a DEF Save, Persist
  <2> QED BY <1>b, <2>1, <2>2
<1>7. ASSUME NEW w \in Worker, Lead(w) \/ Load(w) \/ Keep(w) PROVE Budget'
  <2>1. NoneGains
    BY <1>0, <1>7, BecomesHolders, RestTyped DEF Lead, Load, Keep, NoneGains
  <2>2. Calm /\ faults' \in {faults, faults + 1}
    BY <1>7, <1>a DEF Lead, Load, Keep, Persist, redis, count
  <2> QED BY <1>b, <2>1, <2>2
<1>8. ASSUME NEW w \in Worker, Follow(w) PROVE Budget'
  BY <1>8, <1>a, <1>b, <1>c DEF Follow
<1>9. ASSUME NEW w \in Worker, Read(w) \/ ReadFails(w) PROVE Budget'
  <2>1. NoneGains
    BY <1>0, <1>9, GoesHolders, RestTyped DEF Read, ReadFails, NoneGains
  <2>2. Calm /\ faults' \in {faults, faults + 1}
    BY <1>9, <1>a DEF Read, ReadFails, redis, count
  <2> QED BY <1>b, <2>1, <2>2
<1>10. ASSUME NEW w \in Worker, Check(w) PROVE Budget'
  <2>1. \E S, at : at \in {"keep", "claim"} /\ Goes(w, "poll", at, S, NoSeq)
    BY <1>10 DEF Check
  <2>2. NoneGains
    BY <1>0, <2>1, GoesHolders, RestTyped DEF NoneGains
  <2>3. Calm /\ faults' \in {faults, faults + 1}
    BY <1>10, <1>a DEF Check, redis
  <2> QED BY <1>b, <2>2, <2>3
<1>11. ASSUME NEW w \in Worker, Crash(w) PROVE Budget'
  <2>1. \A h \in Worker \X Kind : task'[h] = IF h[1] = w THEN Rest ELSE task[h]
    BY <1>11 DEF Crash
  <2>2. NoneGains
    BY <2>1 DEF NoneGains, Holders, Rest
  <2> QED BY <1>11, <1>b, <2>2 DEF Crash
<1>12. ASSUME NEW t \in Trade, ClaimLapses(t) PROVE Budget'
  BY <1>0, <1>12, LapseBudget
<1>13. CASE LockLapses \/ Tick \/ UNCHANGED vars
  BY <1>13, <1>b, <1>c DEF LockLapses, Tick, vars, redis, count
<1> QED BY <1>1, <1>2, <1>3, <1>4, <1>5, <1>6, <1>7, <1>8, <1>9, <1>10, <1>11, <1>12, <1>13
           DEF Next, Push, Poll

-----------------------------------------------------------------------------
(* The theorem *)

\* The budget holds at first.
THEOREM InitBudget == Init => IInv
<1> SUFFICES ASSUME Init PROVE IInv
  OBVIOUS
<1>1. Typed
  BY InitTyped
<1>2. \A t \in Trade : Len(sent[t]) = 0 /\ Holders(t) = {} /\ Credit(t) = 0
  BY DEF Init, Holders, Credit, Rest
<1> QED BY <1>1, <1>2, FS_EmptySet DEF IInv, Budget

\* The budget is inductive.
THEOREM StepInductive == IInv /\ [Next]_vars => IInv'
BY StepTyped, StepBudget DEF IInv

\* The budget bounds the messages.
THEOREM BudgetImplies == IInv => AnnouncedOnce
<1> SUFFICES ASSUME IInv, NEW t \in Trade
             PROVE  Len(sent[t]) <= 1 + lapses[t] + faults
  BY DEF AnnouncedOnce
<1>1. Len(sent[t]) + Cardinality(Holders(t)) <= Credit(t)
  BY DEF IInv, Budget
<1> QED BY <1>1, BudgetTypes DEF IInv, Credit

\* However many workers, passes and polls meet, crash and fail, a trade is
\* announced again only after its claim has lapsed or a call has failed
\* (_claim_delivered, _push_transactions and _poll_once of trade_ws.py).
THEOREM AnnouncedOnceHolds == Spec => []AnnouncedOnce
BY InitBudget, StepInductive, BudgetImplies, PTL DEF Spec
-----------------------------------------------------------------------------
(* The rows, the transactions and the tasks *)

\* The rows of the table: none from the future, and a row that a transaction has
\* inserted is its own until it commits.
Table ==
    /\ now \in 1..MaxTime
    /\ created \in [Trade -> 0..MaxTime]
    /\ \A t \in Trade : created[t] <= now
    /\ open \in [Worker -> Trade \cup {NoTrade}]
    /\ \A w \in Worker : open[w] # NoTrade => created[open[w]] > 0
    /\ \A w, v \in Worker : open[w] = open[v] /\ open[w] # NoTrade => w = v

\* A number waits in a task exactly for the trades it is about to send.
Numbers(at, S, seq) ==
    /\ seq \in [Trade -> Nat]
    /\ \A t \in Trade : seq[t] > 0 <=> at = "send" /\ t \in S

TaskOK(h) ==
    /\ task[h].at \in Stage
    /\ task[h].batch \subseteq Committed
    /\ Numbers(task[h].at, task[h].batch, task[h].seq)

\* What the workers, Redis and the clients have.
Others ==
    /\ mark \in [Worker -> 0..now]
    /\ seen \in [Worker -> SUBSET Committed]
    /\ leading \in [Worker -> BOOLEAN]
    /\ lock \in Worker \cup {Free, Gone}
    /\ claimed \subseteq Committed
    /\ stored \in 0..now
    /\ \A t \in Trade : sent[t] \in Seq(Nat \ {0})
    /\ dropped \subseteq Committed
    /\ lapses \in [Trade -> 0..MaxLapses]
    /\ {crashes, faults, handovers} \subseteq Nat
    /\ crashes + faults + handovers <= MaxTroubles

\* A pass hands over no fill before its transactions have ended.
Busy == \A w \in Worker : open[w] # NoTrade => task[<<w, "pass">>].at = "idle"

Sound == /\ Typed /\ Table /\ Others /\ Busy
         /\ \A h \in Worker \X Kind : TaskOK(h)

\* The parts of the invariant give the type invariant of the run.
LEMMA SoundTypes == Sound => TypeOK
<1> SUFFICES ASSUME Sound PROVE TypeOK
  OBVIOUS
<1>1. ASSUME NEW w \in Worker, NEW k \in Kind
      PROVE  /\ task[<<w, k>>].at \in Stage
             /\ task[<<w, k>>].batch \subseteq Committed
             /\ task[<<w, k>>].seq \in [Trade -> Nat]
             /\ \A t \in Trade : task[<<w, k>>].seq[t] > 0 <=>
                                 task[<<w, k>>].at = "send" /\ t \in task[<<w, k>>].batch
  <2>1. <<w, k>> \in Worker \X Kind
    OBVIOUS
  <2> QED BY <2>1 DEF Sound, TaskOK, Numbers
<1> QED BY <1>1 DEF TypeOK, Sound, Typed, Table, Others

\* The trades are numbers above zero, and none is called NoTrade.
LEMMA TradesAreNumbers ==
    /\ NoTrade \notin Trade
    /\ \A t \in Trade : t \in Nat
    /\ MaxTime \in Nat \ {0} /\ MaxTroubles \in Nat /\ MaxLapses \in Nat
BY NotifierAssumption DEF NotifierAssumption, NoTrade

\* A transaction ends: its trade is committed, or its row is gone.
LEMMA EndsTable ==
    ASSUME Table, NEW w \in Worker,
           open' = [open EXCEPT ![w] = NoTrade],
           \/ created' = created
           \/ created' = [t \in Trade |-> IF t = open[w] THEN 0 ELSE created[t]],
           now' = now
    PROVE  Table' /\ Committed \subseteq Committed'
<1>1. /\ open' \in [Worker -> Trade \cup {NoTrade}]
      /\ \A v \in Worker : open'[v] = IF v = w THEN NoTrade ELSE open[v]
  BY DEF Table
<1>2. /\ created' \in [Trade -> 0..MaxTime]
      /\ \A t \in Trade : created'[t] = created[t]
                          \/ (created'[t] = 0 /\ t = open[w])
  BY TradesAreNumbers DEF Table
<1>3. \A t \in Trade : created[t] \in Nat /\ now \in Nat /\ created[t] <= now
  BY TradesAreNumbers DEF Table
<1>4. \A t \in Trade : created'[t] <= now'
  BY <1>2, <1>3
<1>5. ASSUME NEW v \in Worker, open'[v] # NoTrade
      PROVE  open'[v] = open[v] /\ v # w /\ open[v] \in Trade /\ open[v] # open[w]
             /\ created[open[v]] > 0
  BY <1>1, <1>5 DEF Table
<1>6. \A v \in Worker : open'[v] # NoTrade => created'[open'[v]] > 0
  BY <1>2, <1>5
<1>7. \A v, x \in Worker : open'[v] = open'[x] /\ open'[v] # NoTrade => v = x
  BY <1>5 DEF Table
<1>8. Table'
  BY <1>1, <1>2, <1>4, <1>6, <1>7 DEF Table
<1>9. Committed \subseteq Committed'
  <2> SUFFICES ASSUME NEW t \in Committed PROVE t \in Committed'
    OBVIOUS
  <2>1. t \in Trade /\ created[t] > 0 /\ \A v \in Worker : open[v] # t
    BY TradesAreNumbers DEF Committed, Opened
  <2>2. created'[t] > 0
    BY <1>2, <2>1
  <2>3. \A v \in Worker : open'[v] # t
    BY <1>1, <2>1, TradesAreNumbers
  <2> QED BY <2>1, <2>2, <2>3 DEF Committed, Opened
<1> QED BY <1>8, <1>9

\* A transaction inserts its row.
LEMMA BeginTable ==
    ASSUME Table, NEW w \in Worker, Begin(w)
    PROVE  Table' /\ Committed \subseteq Committed'
<1>1. PICK t \in Trade : /\ created[t] = 0
                         /\ created' = [created EXCEPT ![t] = now]
                         /\ open' = [open EXCEPT ![w] = t]
                         /\ now' = now /\ open[w] = NoTrade
  BY DEF Begin
<1>2. /\ now \in Nat /\ now > 0 /\ now \in 0..MaxTime
      /\ \A x \in Trade : created[x] \in Nat /\ created[x] <= now
  BY TradesAreNumbers DEF Table
<1>3. /\ open' \in [Worker -> Trade \cup {NoTrade}]
      /\ \A v \in Worker : open'[v] = IF v = w THEN t ELSE open[v]
  BY <1>1 DEF Table
<1>4. /\ created' \in [Trade -> 0..MaxTime]
      /\ \A x \in Trade : created'[x] = IF x = t THEN now ELSE created[x]
  BY <1>1, <1>2 DEF Table
<1>5. \A v \in Worker : open[v] # t
  BY <1>1, <1>2, TradesAreNumbers DEF Table
<1>6. \A x \in Trade : created'[x] <= now'
  BY <1>1, <1>2, <1>4
<1>7. ASSUME NEW v \in Worker, open'[v] # NoTrade PROVE created'[open'[v]] > 0
  <2>1. CASE v = w
    BY <1>2, <1>3, <1>4, <2>1
  <2>2. CASE v # w
    <3>1. open'[v] = open[v] /\ open[v] \in Trade /\ created[open[v]] > 0
      BY <1>3, <1>7, <2>2 DEF Table
    <3> QED BY <1>4, <1>5, <3>1
  <2> QED BY <2>1, <2>2
<1>8. \A v, x \in Worker : open'[v] = open'[x] /\ open'[v] # NoTrade => v = x
  BY <1>3, <1>5 DEF Table
<1>9. Table'
  BY <1>1, <1>3, <1>4, <1>6, <1>7, <1>8 DEF Table
<1>10. Committed \subseteq Committed'
  <2> SUFFICES ASSUME NEW x \in Committed PROVE x \in Committed'
    OBVIOUS
  <2>1. x \in Trade /\ created[x] > 0 /\ \A v \in Worker : open[v] # x
    BY TradesAreNumbers DEF Committed, Opened
  <2>2. x # t
    BY <1>1, <1>2, <2>1
  <2>3. created'[x] > 0 /\ \A v \in Worker : open'[v] # x
    BY <1>3, <1>4, <2>1, <2>2
  <2> QED BY <2>1, <2>3 DEF Committed, Opened
<1> QED BY <1>9, <1>10

\* Every step keeps the table, and what is committed stays so.
LEMMA StepTable ==
    ASSUME Table, [Next]_vars
    PROVE  Table' /\ Committed \subseteq Committed' /\ now \in Nat /\ now' \in Nat /\ now <= now'
<1>a. ASSUME created' = created, open' = open, now' = now
      PROVE  Table' /\ Committed \subseteq Committed' /\ now' \in Nat /\ now <= now'
  BY <1>a DEF Table, Committed, Opened
<1>b. now \in Nat
  BY DEF Table
<1>1. ASSUME NEW w \in Worker, Begin(w)
      PROVE  Table' /\ Committed \subseteq Committed' /\ now' = now
  BY <1>1, BeginTable DEF Begin
<1>2. ASSUME NEW w \in Worker, Commit(w) \/ PassFails(w) \/ Crash(w)
      PROVE  Table' /\ Committed \subseteq Committed' /\ now' = now
  BY <1>2, EndsTable DEF Commit, PassFails, Crash
<1>3. ASSUME NEW w \in Worker, NEW k \in Kind, Push(w, k)
      PROVE  created' = created /\ open' = open /\ now' = now
  BY <1>3 DEF Push, Claim, Number, Send, Save
<1>4. ASSUME NEW w \in Worker, Poll(w)
      PROVE  created' = created /\ open' = open /\ now' = now
  BY <1>4 DEF Poll, Lead, Follow, Load, Read, ReadFails, Check, Keep
<1>5. CASE LockLapses \/ UNCHANGED vars \/ \E t \in Trade : ClaimLapses(t)
  <2>1. created' = created /\ open' = open /\ now' = now
    BY <1>5 DEF LockLapses, ClaimLapses, vars
  <2> QED BY <2>1, <1>a, <1>b
<1>6. CASE Tick
  <2>1. /\ created' = created /\ open' = open /\ now' = now + 1 /\ now < MaxTime
        /\ now \in 1..MaxTime /\ MaxTime \in Nat
        /\ \A t \in Trade : created[t] \in 0..MaxTime /\ created[t] <= now
    BY <1>6, TradesAreNumbers DEF Tick, Table
  <2>2. now' \in 1..MaxTime /\ now \in Nat /\ now' \in Nat /\ now <= now'
    BY <2>1
  <2>3. \A t \in Trade : created'[t] <= now'
    BY <2>1
  <2>4. Table'
    BY <2>1, <2>2, <2>3 DEF Table
  <2>5. Committed' = Committed
    BY <2>1 DEF Committed, Opened
  <2> QED BY <2>2, <2>4, <2>5
<1> QED BY <1>a, <1>b, <1>1, <1>2, <1>3, <1>4, <1>5, <1>6 DEF Next

\* One task goes on, the others stay where they are.
LEMMA GoesOK ==
    ASSUME \A h \in Worker \X Kind : TaskOK(h), task \in Tasks,
           Committed \subseteq Committed',
           NEW w \in Worker, NEW k \in Kind, NEW at \in Stage,
           NEW S, S \subseteq Committed', NEW seq, Numbers(at, S, seq),
           Goes(w, k, at, S, seq)
    PROVE  \A h \in Worker \X Kind : TaskOK(h)'
<1>1. \A h \in Worker \X Kind :
        task'[h] = IF h = <<w, k>> THEN [at |-> at, batch |-> S, seq |-> seq] ELSE task[h]
  BY DEF Goes, Tasks
<1> SUFFICES ASSUME NEW h \in Worker \X Kind PROVE TaskOK(h)'
  OBVIOUS
<1>2. CASE h = <<w, k>>
  <2>1. task'[h].at = at /\ task'[h].batch = S /\ task'[h].seq = seq
    BY <1>1, <1>2
  <2> QED BY <2>1 DEF TaskOK, Numbers
<1>3. CASE h # <<w, k>>
  BY <1>1, <1>3 DEF TaskOK, Numbers
<1> QED BY <1>2, <1>3

\* Nothing waits with no number, and nothing waits outside "send".
LEMMA NothingWaits ==
    ASSUME NEW at, at # "send", NEW S
    PROVE  Numbers(at, S, NoSeq)
BY DEF Numbers, NoSeq

\* A task that keeps its batch, outside the sending loop.
LEMMA BecomesOK ==
    ASSUME \A h \in Worker \X Kind : TaskOK(h), task \in Tasks,
           Committed \subseteq Committed',
           NEW w \in Worker, NEW k \in Kind, NEW at \in Stage, at # "send",
           task[<<w, k>>].at # "send",
           Becomes(w, k, at)
    PROVE  \A h \in Worker \X Kind : TaskOK(h)'
<1>1. <<w, k>> \in Worker \X Kind
  OBVIOUS
<1>2. /\ Numbers(at, task[<<w, k>>].batch, task[<<w, k>>].seq)
      /\ task[<<w, k>>].batch \subseteq Committed'
  BY <1>1 DEF TaskOK, Numbers
<1> QED BY <1>2, GoesOK DEF Becomes

\* The numbers of a batch are above zero.
LEMMA BatchNumbers ==
    ASSUME NEW S \in SUBSET Trade, NEW base \in [User -> Nat]
    PROVE  \A at : at = "send" \/ S = {} => Numbers(at, S, Numbered(S, base))
<1>1. Numbered(S, base) \in [Trade -> Nat]
  BY NumberTypes
<1>2. ASSUME NEW t \in S PROVE Numbered(S, base)[t] > 0
  <2> DEFINE n == Cardinality({u \in SameChannel(S, t) : Before(u, t)})
  <2>1. {u \in SameChannel(S, t) : Before(u, t)} \in SUBSET Trade
    BY DEF SameChannel
  <2>2. n \in Nat
    BY <2>1, NotifierAssumption, FS_Subset, FS_CardinalityType DEF NotifierAssumption
  <2>3. base[Owner[t]] \in Nat
    BY NotifierAssumption DEF NotifierAssumption
  <2>4. Numbered(S, base)[t] = base[Owner[t]] + 1 + n
    BY DEF Numbered
  <2> QED BY <2>2, <2>3, <2>4
<1>3. \A t \in Trade \ S : Numbered(S, base)[t] = 0
  BY DEF Numbered
<1> HIDE DEF Numbered
<1>4. \A t \in Trade : Numbered(S, base)[t] > 0 <=> t \in S
  BY <1>2, <1>3
<1> QED BY <1>1, <1>4 DEF Numbers

\* Every step leaves every task with committed trades and matching numbers.
LEMMA StepTasksOK ==
    ASSUME Sound, [Next]_vars
    PROVE  \A h \in Worker \X Kind : TaskOK(h)'
<1> DEFINE All == \A h \in Worker \X Kind : TaskOK(h)
<1>0. All /\ task \in Tasks /\ Committed \subseteq Committed' /\ Table'
  BY StepTable DEF Sound, Typed
<1>a. ASSUME NEW w \in Worker, NEW k \in Kind
      PROVE  task[<<w, k>>].batch \subseteq Committed' /\ <<w, k>> \in Worker \X Kind
  <2>1. <<w, k>> \in Worker \X Kind
    OBVIOUS
  <2> QED BY <1>0, <2>1 DEF TaskOK
<1>b. ASSUME task' = task PROVE All'
  BY <1>0, <1>b DEF TaskOK, Numbers
<1>1. ASSUME NEW w \in Worker, Begin(w) PROVE All'
  BY <1>1, <1>b DEF Begin
<1>2. ASSUME NEW w \in Worker, Commit(w) PROVE All'
  <2>1. /\ open[w] \in Trade /\ created[open[w]] > 0
        /\ created' = created /\ open' = [open EXCEPT ![w] = NoTrade]
    BY <1>2 DEF Commit, Sound, Table
  <2>2. open[w] \notin Opened'
    BY <2>1, TradesAreNumbers DEF Opened, Sound, Table
  <2>3. open[w] \in Committed'
    BY <2>1, <2>2 DEF Committed
  <2>4. task[<<w, "pass">>].batch \cup {open[w]} \subseteq Committed'
    BY <1>a, <2>3, RestTyped
  <2> QED BY <1>0, <1>2, <2>4, GoesOK, NothingWaits, RestTyped DEF Commit, Stage
<1>3. ASSUME NEW w \in Worker, PassFails(w) PROVE All'
  BY <1>0, <1>3, GoesOK, NothingWaits, RestTyped DEF PassFails, Stage
<1>4. ASSUME NEW w \in Worker, NEW k \in Kind, Claim(w, k) PROVE All'
  <2>1. \/ Goes(w, k, "number", Unclaimed(task[<<w, k>>].batch), NoSeq)
        \/ Becomes(w, k, "number") /\ task[<<w, k>>].at # "send"
    BY <1>4 DEF Claim, MayClaim
  <2>2. Unclaimed(task[<<w, k>>].batch) \subseteq Committed' /\ "number" \in Stage
    BY <1>a DEF Unclaimed, Stage
  <2> QED BY <1>0, <2>1, <2>2, GoesOK, BecomesOK, NothingWaits
<1>5. ASSUME NEW w \in Worker, NEW k \in Kind, Number(w, k) PROVE All'
  <2> DEFINE batch == task[<<w, k>>].batch
             at == IF batch = {} THEN "save" ELSE "send"
  <2>1. batch \in SUBSET Trade /\ at \in Stage /\ (at = "send" \/ batch = {})
    BY <1>0, TaskParts DEF Stage
  <2>2. batch \subseteq Committed'
    BY <1>a
  <2>3. counter \in [User -> Nat] /\ localSeq[w] \in [User -> Nat]
    BY DEF Sound, Typed
  <2>4. \/ Goes(w, k, at, batch, Numbered(batch, counter))
        \/ Goes(w, k, at, batch, Numbered(batch, localSeq[w]))
    BY <1>5 DEF Number
  <2> HIDE DEF batch, at
  <2>5. /\ Numbers(at, batch, Numbered(batch, counter))
        /\ Numbers(at, batch, Numbered(batch, localSeq[w]))
    BY <2>1, <2>3, BatchNumbers
  <2> QED BY <1>0, <2>1, <2>2, <2>4, <2>5, GoesOK
<1>6. ASSUME NEW w \in Worker, NEW k \in Kind, Send(w, k) PROVE All'
  <2> DEFINE batch == task[<<w, k>>].batch
             at(t) == IF batch = {t} THEN "save" ELSE "send"
             seq(t) == [task[<<w, k>>].seq EXCEPT ![t] = 0]
  <2>1. PICK t \in batch : Goes(w, k, at(t), batch \ {t}, seq(t))
    BY <1>6 DEF Send
  <2>2. Numbers("send", batch, task[<<w, k>>].seq) /\ batch \subseteq Trade
    <3>1. task[<<w, k>>].at = "send"
      BY <1>6 DEF Send
    <3>2. Numbers(task[<<w, k>>].at, batch, task[<<w, k>>].seq)
      BY <1>0, <1>a DEF TaskOK
    <3> QED BY <1>0, <3>1, <3>2, TaskParts
  <2>3. at(t) \in Stage /\ batch \ {t} \subseteq Committed'
    BY <1>a DEF Stage
  <2>4. Numbers(at(t), batch \ {t}, seq(t))
    BY <2>2 DEF Numbers
  <2> HIDE DEF batch, at, seq
  <2> QED BY <1>0, <2>1, <2>3, <2>4, GoesOK
<1>7. ASSUME NEW w \in Worker, NEW k \in Kind, Save(w, k) PROVE All'
  <2>1. Becomes(w, k, "idle") \/ Becomes(w, k, "keep")
    BY <1>7 DEF Save
  <2> QED BY <1>0, <1>7, <2>1, BecomesOK DEF Save, Stage
<1>8. ASSUME NEW w \in Worker, Lead(w) \/ Load(w) \/ Keep(w) PROVE All'
  <2>1. \/ Becomes(w, "poll", "read") \/ Becomes(w, "poll", "load")
        \/ Becomes(w, "poll", "idle")
    BY <1>8 DEF Lead, Load, Keep
  <2>2. task[<<w, "poll">>].at # "send"
    BY <1>8 DEF Lead, Load, Keep
  <2> QED BY <1>0, <2>1, <2>2, BecomesOK, RestTyped DEF Stage
<1>9. ASSUME NEW w \in Worker, ReadFails(w) PROVE All'
  BY <1>0, <1>9, GoesOK, NothingWaits, RestTyped DEF ReadFails, Stage
<1>10. ASSUME NEW w \in Worker, Read(w) PROVE All'
  <2>1. Rows(mark[w]) \subseteq Committed'
    BY <1>0 DEF Rows, Window
  <2> QED BY <1>0, <1>10, <2>1, GoesOK, NothingWaits, RestTyped DEF Read, Stage
<1>11. ASSUME NEW w \in Worker, Check(w) PROVE All'
  <2> DEFINE fresh == task[<<w, "poll">>].batch \ seen[w]
             at(S) == IF S = {} THEN "keep" ELSE "claim"
  <2>1. fresh \subseteq Committed' /\ Unclaimed(fresh) \subseteq Committed'
    BY <1>a, RestTyped DEF Unclaimed
  <2>2. \A S : at(S) \in Stage /\ at(S) # "send"
    BY DEF Stage
  <2>3. \/ Goes(w, "poll", at(fresh), fresh, NoSeq)
        \/ Goes(w, "poll", at(Unclaimed(fresh)), Unclaimed(fresh), NoSeq)
    BY <1>11 DEF Check
  <2> HIDE DEF at, fresh
  <2> QED BY <1>0, <2>1, <2>2, <2>3, GoesOK, NothingWaits, RestTyped
<1>12. ASSUME NEW w \in Worker, Crash(w) PROVE All'
  <2> SUFFICES ASSUME NEW h \in Worker \X Kind PROVE TaskOK(h)'
    OBVIOUS
  <2>1. task'[h] = Rest \/ task'[h] = task[h]
    BY <1>12 DEF Crash
  <2>2. ASSUME task'[h] = Rest PROVE TaskOK(h)'
    BY <2>2, NothingWaits DEF TaskOK, Rest, Stage, Numbers
  <2> QED BY <1>0, <2>1, <2>2 DEF TaskOK, Numbers
<1>13. ASSUME NEW w \in Worker, Follow(w) PROVE All'
  BY <1>13, <1>b DEF Follow
<1>14. CASE LockLapses \/ Tick \/ UNCHANGED vars \/ \E t \in Trade : ClaimLapses(t)
  BY <1>14, <1>b DEF LockLapses, Tick, vars, ClaimLapses
<1> QED BY <1>1, <1>2, <1>3, <1>4, <1>5, <1>6, <1>7, <1>8, <1>9, <1>10, <1>11, <1>12,
           <1>13, <1>14 DEF Next, Push, Poll

-----------------------------------------------------------------------------
(* The workers, Redis and the clients *)

\* A watermark is a time that has come.
LEMMA LatestType ==
    ASSUME Table, NEW m \in 0..now, NEW S \in SUBSET Trade
    PROVE  Latest(m, S) \in 0..now
<1> DEFINE X == {m} \cup {created[t] : t \in S}
           Y == {now - x : x \in X}
<1>1. now \in Nat /\ \A t \in Trade : created[t] \in Nat /\ created[t] <= now
  BY TradesAreNumbers DEF Table
<1>2. X \in SUBSET (0..now) /\ X # {}
  BY <1>1
<1>3. \E x \in X : \A y \in X : x >= y
  <2> HIDE DEF X
  <2>1. Y \in SUBSET Nat /\ Y # {}
    BY <1>1, <1>2
  <2> HIDE DEF Y
  <2>2. PICK y \in Y : \A z \in Y : y <= z
    BY <2>1, LeastNatural
  <2>3. PICK x \in X : y = now - x
    BY DEF Y
  <2>4. \A z \in X : now - x <= now - z
    BY <2>2, <2>3 DEF Y
  <2>5. \A z \in X : z \in 0..now
    BY <1>2
  <2> QED BY <1>1, <2>3, <2>4, <2>5
<1>4. Latest(m, S) = CHOOSE x \in X : \A y \in X : x >= y
  BY DEF Latest, Max
<1> HIDE DEF X
<1> QED BY <1>2, <1>3, <1>4

\* Every step keeps watermarks in the past and counters in their bounds.
LEMMA StepOthersOK ==
    ASSUME Sound, [Next]_vars
    PROVE  Others'
<1>0. /\ Others /\ Table /\ Table' /\ Committed \subseteq Committed'
      /\ now \in Nat /\ now' \in Nat /\ now <= now'
      /\ task \in Tasks
      /\ \A h \in Worker \X Kind : task[h].batch \subseteq Committed
      /\ Committed \subseteq Trade
  BY StepTable DEF Sound, Typed, TaskOK, Committed
<1>t. /\ mark \in [Worker -> 0..now]
      /\ mark \in [Worker -> 0..now']
      /\ seen \in [Worker -> SUBSET Committed]
      /\ seen \in [Worker -> SUBSET Committed']
      /\ stored \in 0..now /\ stored \in 0..now'
      /\ leading \in [Worker -> BOOLEAN]
      /\ claimed \subseteq Committed' /\ dropped \subseteq Committed'
      /\ lapses \in [Trade -> 0..MaxLapses]
      /\ \A t \in Trade : sent[t] \in Seq(Nat \ {0})
      /\ lock \in Worker \cup {Free, Gone}
  <2>1. 0..now \subseteq 0..now'
    BY <1>0
  <2> QED BY <1>0, <2>1 DEF Others
<1>c. /\ crashes \in Nat /\ faults \in Nat /\ handovers \in Nat
      /\ crashes + faults + handovers <= MaxTroubles /\ MaxTroubles \in Nat
  BY <1>0, TradesAreNumbers DEF Others
<1> DEFINE Counts == /\ {crashes, faults, handovers} \subseteq Nat
                     /\ crashes + faults + handovers <= MaxTroubles
<1>f. ASSUME UNCHANGED <<crashes, handovers>>, faults' = faults \/ Fault PROVE Counts'
  <2>1. CASE faults' = faults
    BY <1>c, <1>f, <2>1
  <2>2. CASE Fault
    BY <1>c, <1>f, <2>2 DEF Fault, Spare
  <2> QED BY <1>f, <2>1, <2>2
<1>q. ASSUME UNCHANGED <<crashes, handovers, faults>> PROVE Counts'
  BY <1>f, <1>q
<1>1. ASSUME NEW w \in Worker, Begin(w) \/ Commit(w) \/ PassFails(w) PROVE Others'
  <2>1. UNCHANGED <<local, redis, sent, dropped, count>>
    BY <1>1 DEF Begin, Commit, PassFails
  <2> QED BY <1>t, <1>q, <2>1 DEF Others, local, redis, count
<1>2. ASSUME NEW w \in Worker, NEW k \in Kind, Claim(w, k) PROVE Others'
  <2>1. task[<<w, k>>].batch \subseteq Committed'
    <3>1. <<w, k>> \in Worker \X Kind
      OBVIOUS
    <3> QED BY <1>0, <3>1
  <2>2. claimed' \subseteq Committed'
    BY <1>2, <1>t, <2>1 DEF Claim, Unclaimed
  <2>3. Counts'
    BY <1>2, <1>f DEF Claim
  <2>4. UNCHANGED <<local, lock, stored, sent, dropped, lapses>>
    BY <1>2 DEF Claim
  <2> QED BY <1>t, <2>2, <2>3, <2>4 DEF Others, local
<1>3. ASSUME NEW w \in Worker, NEW k \in Kind, Number(w, k) PROVE Others'
  <2>1. Counts'
    BY <1>3, <1>f DEF Number
  <2>2. UNCHANGED <<mark, seen, leading, lock, claimed, stored, sent, dropped, lapses>>
    BY <1>3 DEF Number
  <2> QED BY <1>t, <2>1, <2>2 DEF Others
<1>4. ASSUME NEW w \in Worker, NEW k \in Kind, Send(w, k) PROVE Others'
  <2> DEFINE batch == task[<<w, k>>].batch
  <2>1. PICK t \in batch :
          /\ seen' = [seen EXCEPT ![w] = @ \cup {t}]
          /\ mark' = [mark EXCEPT ![w] = Latest(@, {t})]
          /\ sent' = [sent EXCEPT ![t] = Append(@, task[<<w, k>>].seq[t])]
    BY <1>4 DEF Send
  <2>2. UNCHANGED <<created, open, now, leading, redis, dropped, count>>
    BY <1>4 DEF Send
  <2>3. <<w, k>> \in Worker \X Kind
    OBVIOUS
  <2>4. t \in Committed /\ t \in Trade /\ Committed' = Committed
    BY <1>0, <2>2, <2>3 DEF Committed, Opened
  <2>5. task[<<w, k>>].seq[t] \in Nat \ {0}
    <3>1. Numbers(task[<<w, k>>].at, batch, task[<<w, k>>].seq)
      BY <2>3 DEF Sound, TaskOK
    <3>2. task[<<w, k>>].at = "send"
      BY <1>4 DEF Send
    <3>3. task[<<w, k>>].seq[t] \in Nat /\ task[<<w, k>>].seq[t] > 0
      BY <2>4, <3>1, <3>2 DEF Numbers
    <3> QED BY <3>3
  <2>6. \A x \in Trade : sent'[x] \in Seq(Nat \ {0})
    <3>1. sent \in [Trade -> Seq(Nat)]
      BY DEF Sound, Typed
    <3>2. \A x \in Trade : sent'[x] = IF x = t THEN Append(sent[t], task[<<w, k>>].seq[t])
                                       ELSE sent[x]
      BY <2>1, <2>4, <3>1
    <3>3. Append(sent[t], task[<<w, k>>].seq[t]) \in Seq(Nat \ {0})
      BY <1>t, <2>4, <2>5
    <3> QED BY <1>t, <3>2, <3>3
  <2>7. Latest(mark[w], {t}) \in 0..now
    BY <1>0, <1>t, <2>4, LatestType
  <2>8. mark' \in [Worker -> 0..now'] /\ seen' \in [Worker -> SUBSET Committed']
    BY <1>t, <2>1, <2>2, <2>4, <2>7
  <2> QED BY <1>t, <1>q, <2>2, <2>6, <2>8 DEF Others, redis, count
<1>p. ASSUME NEW w \in Worker, Persist(w), now' = now
      PROVE  stored' \in 0..now' /\ (faults' = faults \/ Fault)
  BY <1>t, <1>p DEF Persist
<1>5. ASSUME NEW w \in Worker, NEW k \in Kind, Save(w, k) PROVE Others'
  <2>1. /\ Persist(w) /\ now' = now
        /\ UNCHANGED <<local, lock, claimed, sent, dropped, lapses, crashes, handovers>>
    BY <1>5 DEF Save
  <2>2. stored' \in 0..now' /\ Counts'
    BY <1>p, <1>f, <2>1
  <2> QED BY <1>t, <2>1, <2>2 DEF Others, local
<1>6. ASSUME NEW w \in Worker, Keep(w) PROVE Others'
  <2>1. /\ Persist(w) /\ now' = now
        /\ UNCHANGED <<local, lock, claimed, sent, dropped, lapses, crashes, handovers>>
    BY <1>6 DEF Keep
  <2>2. stored' \in 0..now' /\ Counts'
    BY <1>p, <1>f, <2>1
  <2> QED BY <1>t, <2>1, <2>2 DEF Others, local
<1>7. ASSUME NEW w \in Worker, Lead(w) PROVE Others'
  <2>1. /\ lock' = w /\ leading' = [leading EXCEPT ![w] = TRUE]
        /\ UNCHANGED <<mark, seen, claimed, stored, sent, dropped, count>>
    BY <1>7 DEF Lead
  <2>2. leading' \in [Worker -> BOOLEAN]
    BY <1>t, <2>1
  <2> QED BY <1>t, <1>q, <2>1, <2>2 DEF Others, count
<1>8. ASSUME NEW w \in Worker, Follow(w) PROVE Others'
  <2>1. /\ lock' \in Worker \cup {Free, Gone} /\ leading' = [leading EXCEPT ![w] = FALSE]
        /\ UNCHANGED <<mark, seen, claimed, stored, sent, dropped, lapses, crashes, handovers>>
        /\ faults' = faults \/ Fault
    BY <1>8, <1>t DEF Follow
  <2>2. leading' \in [Worker -> BOOLEAN] /\ Counts'
    BY <1>t, <1>f, <2>1
  <2> QED BY <1>t, <2>1, <2>2 DEF Others
<1>9. ASSUME NEW w \in Worker, Load(w) PROVE Others'
  <2>1. /\ mark' = mark \/ mark' = [mark EXCEPT ![w] = IF stored = 0 THEN @ ELSE stored]
        /\ UNCHANGED <<seen, leading, redis, sent, dropped, lapses, crashes, handovers>>
        /\ faults' = faults \/ Fault
    BY <1>9 DEF Load
  <2>2. mark' \in [Worker -> 0..now'] /\ Counts'
    BY <1>t, <1>f, <2>1
  <2> QED BY <1>t, <2>1, <2>2 DEF Others, redis
<1>10. ASSUME NEW w \in Worker, Read(w) \/ ReadFails(w) PROVE Others'
  <2>1. /\ UNCHANGED <<local, redis, sent, dropped, lapses, crashes, handovers>>
        /\ faults' = faults \/ Fault
    BY <1>10 DEF Read, ReadFails, count
  <2>2. Counts'
    BY <1>f, <2>1
  <2> QED BY <1>t, <2>1, <2>2 DEF Others, local, redis
<1>11. ASSUME NEW w \in Worker, Check(w) PROVE Others'
  <2> DEFINE rows == task[<<w, "poll">>].batch
  <2>1. /\ mark' = [mark EXCEPT ![w] = Latest(@, rows)] /\ now' = now
        /\ UNCHANGED <<seen, leading, redis, sent, dropped, lapses, crashes, handovers>>
        /\ faults' = faults \/ Fault
    BY <1>11 DEF Check
  <2>2. rows \in SUBSET Trade
    BY <1>0, TaskParts, RestTyped
  <2> HIDE DEF rows
  <2>3. Latest(mark[w], rows) \in 0..now
    BY <1>0, <1>t, <2>2, LatestType
  <2>4. mark' \in [Worker -> 0..now'] /\ Counts'
    BY <1>t, <1>f, <2>1, <2>3
  <2> QED BY <1>t, <2>1, <2>4 DEF Others, redis
<1>12. ASSUME NEW w \in Worker, Crash(w) PROVE Others'
  <2>1. /\ mark' = [mark EXCEPT ![w] = 0] /\ seen' = [seen EXCEPT ![w] = {}]
        /\ leading' = [leading EXCEPT ![w] = FALSE]
        /\ lock' \in {lock, Gone}
        /\ UNCHANGED <<now, claimed, stored, sent, lapses, faults, handovers>>
        /\ crashes' = crashes + 1 /\ Spare
    BY <1>12 DEF Crash
  <2>2. dropped' \subseteq Committed'
    <3>1. \A k \in Kind : task[<<w, k>>].batch \subseteq Committed'
      <4> TAKE k \in Kind
      <4>1. <<w, k>> \in Worker \X Kind
        OBVIOUS
      <4> QED BY <1>0, <4>1
    <3>2. dropped' = dropped \cup UNION {task[<<w, k>>].batch : k \in
                       {j \in Kind : task[<<w, j>>].at \in {"number", "send"}}}
      BY <1>12 DEF Crash
    <3> QED BY <1>t, <3>1, <3>2
  <2>3. Counts'
    BY <1>c, <2>1 DEF Spare
  <2>4. /\ mark' \in [Worker -> 0..now'] /\ seen' \in [Worker -> SUBSET Committed']
        /\ leading' \in [Worker -> BOOLEAN] /\ lock' \in Worker \cup {Free, Gone}
    BY <1>0, <1>t, <2>1
  <2> QED BY <1>t, <2>1, <2>2, <2>3, <2>4 DEF Others
<1>13. ASSUME NEW t \in Trade, ClaimLapses(t) PROVE Others'
  <2>1. /\ claimed' = claimed \ {t} /\ lapses[t] < MaxLapses
        /\ lapses' = [lapses EXCEPT ![t] = @ + 1]
        /\ UNCHANGED <<local, lock, stored, sent, dropped, crashes, faults, handovers>>
    BY <1>13 DEF ClaimLapses
  <2>2. lapses' \in [Trade -> 0..MaxLapses]
    BY <1>t, <2>1, TradesAreNumbers
  <2> QED BY <1>t, <1>q, <2>1, <2>2 DEF Others, local
<1>14. CASE LockLapses
  <2>1. /\ lock' = Free
        /\ \/ UNCHANGED handovers
           \/ Spare /\ handovers' = handovers + 1
        /\ UNCHANGED <<local, claimed, stored, sent, dropped, lapses, crashes, faults>>
    BY <1>14 DEF LockLapses
  <2>2. Counts'
    BY <1>c, <2>1 DEF Spare
  <2> QED BY <1>t, <2>1, <2>2 DEF Others, local
<1>15. CASE Tick \/ UNCHANGED vars
  <2>1. UNCHANGED <<local, redis, sent, dropped, count>>
    BY <1>15 DEF Tick, vars
  <2> QED BY <1>t, <1>q, <2>1 DEF Others, local, redis, count
<1> QED BY <1>1, <1>2, <1>3, <1>4, <1>5, <1>6, <1>7, <1>8, <1>9, <1>10, <1>11, <1>12,
           <1>13, <1>14, <1>15 DEF Next, Push, Poll

\* No step starts to push while the pass has a transaction open.
LEMMA StepBusy ==
    ASSUME Sound, [Next]_vars
    PROVE  Busy'
<1>0. task \in Tasks /\ open \in [Worker -> Trade \cup {NoTrade}] /\ Busy
  BY DEF Sound, Typed
<1>g. ASSUME NEW w \in Worker, NEW k \in Kind, NEW at, NEW S, NEW seq, Goes(w, k, at, S, seq)
      PROVE  \A v \in Worker : v # w \/ k # "pass" => task'[<<v, "pass">>] = task[<<v, "pass">>]
  <2>1. \A v \in Worker : <<v, "pass">> \in Worker \X Kind
    BY RestTyped
  <2> QED BY <1>0, <1>g, <2>1 DEF Goes, Tasks
<1>b. ASSUME NEW w \in Worker, NEW k \in Kind, NEW at, Becomes(w, k, at)
      PROVE  \A v \in Worker : v # w \/ k # "pass" => task'[<<v, "pass">>] = task[<<v, "pass">>]
  BY <1>b, <1>g DEF Becomes
<1>1. ASSUME task' = task, open' = open PROVE Busy'
  BY <1>0, <1>1 DEF Busy
<1>2. ASSUME NEW w \in Worker, Begin(w) PROVE Busy'
  <2>1. /\ task' = task /\ task[<<w, "pass">>].at = "idle"
        /\ \A v \in Worker : v # w => open'[v] = open[v]
    BY <1>0, <1>2 DEF Begin
  <2> QED BY <1>0, <2>1 DEF Busy
<1>3. ASSUME NEW w \in Worker, Commit(w) \/ PassFails(w) PROVE Busy'
  <2>1. /\ \A v \in Worker : v # w => open'[v] = open[v]
        /\ open'[w] = NoTrade
    BY <1>0, <1>3 DEF Commit, PassFails
  <2>2. \A v \in Worker : v # w => task'[<<v, "pass">>] = task[<<v, "pass">>]
    BY <1>3, <1>g, RestTyped DEF Commit, PassFails
  <2> QED BY <1>0, <2>1, <2>2 DEF Busy
<1>4. ASSUME NEW w \in Worker, Crash(w) PROVE Busy'
  <2>1. /\ \A v \in Worker : v # w => open'[v] = open[v]
        /\ open'[w] = NoTrade
    BY <1>0, <1>4 DEF Crash
  <2>2. \A v \in Worker : v # w => task'[<<v, "pass">>] = task[<<v, "pass">>]
    <3>1. \A v \in Worker : <<v, "pass">> \in Worker \X Kind
      BY RestTyped
    <3> QED BY <1>4, <3>1 DEF Crash
  <2> QED BY <1>0, <2>1, <2>2 DEF Busy
<1>5. ASSUME NEW w \in Worker, NEW k \in Kind, Push(w, k) PROVE Busy'
  <2>1. open' = open
    BY <1>5 DEF Push, Claim, Number, Send, Save
  <2>2. k = "pass" => open[w] = NoTrade
    <3>1. CASE Claim(w, k)
      BY <1>0, <3>1 DEF Claim, MayClaim, Busy
    <3>2. CASE Number(w, k)
      BY <1>0, <3>2 DEF Number, Busy
    <3>3. CASE Send(w, k)
      BY <1>0, <3>3 DEF Send, Busy
    <3>4. CASE Save(w, k)
      BY <1>0, <3>4 DEF Save, Busy
    <3> QED BY <1>5, <3>1, <3>2, <3>3, <3>4 DEF Push
  <2>3. \A v \in Worker : v # w \/ k # "pass" => task'[<<v, "pass">>] = task[<<v, "pass">>]
    <3>1. CASE Claim(w, k) \/ Save(w, k)
      BY <1>b, <1>g, <3>1 DEF Claim, Save
    <3>2. CASE Number(w, k)
      BY <1>g, <3>2 DEF Number
    <3>3. CASE Send(w, k)
      BY <1>g, <3>3 DEF Send
    <3> QED BY <1>5, <3>1, <3>2, <3>3 DEF Push
  <2> QED BY <1>0, <2>1, <2>2, <2>3 DEF Busy
<1>6. ASSUME NEW w \in Worker, Poll(w) PROVE Busy'
  <2>1. open' = open
    BY <1>6 DEF Poll, Lead, Follow, Load, Read, ReadFails, Check, Keep
  <2>2. \/ task' = task
        \/ \E at : Becomes(w, "poll", at)
        \/ \E at, S, seq : Goes(w, "poll", at, S, seq)
    <3>1. CASE Lead(w) \/ Load(w) \/ Keep(w)
      BY <3>1 DEF Lead, Load, Keep
    <3>2. CASE Follow(w)
      BY <3>2 DEF Follow
    <3>3. CASE Read(w) \/ ReadFails(w)
      BY <3>3 DEF Read, ReadFails
    <3>4. CASE Check(w)
      BY <3>4 DEF Check
    <3> QED BY <1>6, <3>1, <3>2, <3>3, <3>4 DEF Poll
  <2>3. \A v \in Worker : task'[<<v, "pass">>] = task[<<v, "pass">>]
    BY <1>b, <1>g, <2>2, RestTyped
  <2> QED BY <1>0, <2>1, <2>3 DEF Busy
<1>7. CASE LockLapses \/ Tick \/ UNCHANGED vars \/ \E t \in Trade : ClaimLapses(t)
  BY <1>1, <1>7 DEF LockLapses, Tick, vars, ClaimLapses
<1> QED BY <1>2, <1>3, <1>4, <1>5, <1>6, <1>7 DEF Next

\* The types and the shape of the tasks are inductive.
LEMMA StepSound == Sound /\ [Next]_vars => Sound'
BY StepTyped, StepTable, StepTasksOK, StepOthersOK, StepBusy DEF Sound

\* They hold at first.
LEMMA InitSound == Init => Sound
<1> SUFFICES ASSUME Init PROVE Sound
  OBVIOUS
<1>1. Typed
  BY InitTyped
<1>2. Table
  BY TradesAreNumbers DEF Init, Table, NoTrade
<1>3. Others
  BY TradesAreNumbers DEF Init, Others
<1>4. ASSUME NEW h \in Worker \X Kind PROVE TaskOK(h)
  <2>1. task[h] = Rest
    BY DEF Init
  <2> QED BY <2>1, NothingWaits DEF TaskOK, Rest, Stage
<1>5. Busy
  BY DEF Init, Busy
<1> QED BY <1>1, <1>2, <1>3, <1>4, <1>5 DEF Sound

-----------------------------------------------------------------------------
(* The numbers *)

\* What a user's messages promise while Redis answers.
Tells(u) ==
    /\ \A m, n \in Messages(u) : m.seq = n.seq => m = n
    /\ NumbersTo(u) \subseteq 1..counter[u]
    /\ crashes = 0 => NumbersTo(u) = 1..counter[u]

Told == faults = 0 => \A u \in User : Tells(u)

Message(t, place, seq) == [trade |-> t, place |-> place, seq |-> seq]

\* The messages, one by one.
LEMMA MessageIs ==
    ASSUME NEW u
    PROVE  /\ \A m : m \in SentTo(u) <=>
                 \E t \in Trade : /\ Owner[t] = u
                                 /\ \E i \in DOMAIN sent[t] : m = Message(t, <<i>>, sent[t][i])
           /\ \A m : m \in WaitingFor(u) <=>
                 \E h \in Worker \X Kind :
                    /\ task[h].at = "send"
                    /\ \E t \in task[h].batch : Owner[t] = u /\ m = Message(t, h, task[h].seq[t])
BY DEF SentTo, WaitingFor, Message

\* A step that gives no number and takes messages away in a crash only.
LEMMA FewerMessages ==
    ASSUME NEW u \in User, Tells(u), counter' = counter,
           \/ Messages(u)' = Messages(u) /\ crashes' = crashes
           \/ Messages(u)' \subseteq Messages(u) /\ crashes' # 0
    PROVE  Tells(u)'
<1>1. \A m \in Messages(u)' : m \in Messages(u)
  OBVIOUS
<1>2. NumbersTo(u)' \subseteq NumbersTo(u)
  BY <1>1 DEF NumbersTo
<1>3. CASE Messages(u)' = Messages(u) /\ crashes' = crashes
  <2>1. NumbersTo(u)' = NumbersTo(u)
    BY <1>3 DEF NumbersTo
  <2> QED BY <1>1, <1>3, <2>1 DEF Tells
<1>4. CASE crashes' # 0
  BY <1>1, <1>2, <1>4 DEF Tells
<1> QED BY <1>3, <1>4

\* Tasks that move outside "send" change no message.
LEMMA SameMessages ==
    ASSUME sent' = sent,
           \A h \in Worker \X Kind :
              task'[h] = task[h] \/ (task[h].at # "send" /\ task'[h].at # "send")
    PROVE  \A u \in User : Messages(u)' = Messages(u)
<1> SUFFICES ASSUME NEW u \in User PROVE Messages(u)' = Messages(u)
  OBVIOUS
<1>1. SentTo(u)' = SentTo(u)
  BY DEF SentTo
<1>2. {h \in Worker \X Kind : task'[h].at = "send"} = {h \in Worker \X Kind : task[h].at = "send"}
  OBVIOUS
<1>3. \A h \in Worker \X Kind : task[h].at = "send" => task'[h] = task[h]
  OBVIOUS
<1>4. WaitingFor(u)' = WaitingFor(u)
  BY <1>2, <1>3 DEF WaitingFor
<1> QED BY <1>1, <1>4 DEF Messages

\* A step of one task outside the sending loop.
LEMMA GoesElsewhere ==
    ASSUME NEW w \in Worker, NEW k \in Kind, NEW at, NEW S, NEW seq, task \in Tasks,
           Goes(w, k, at, S, seq), at # "send", task[<<w, k>>].at # "send"
    PROVE  \A h \in Worker \X Kind :
              task'[h] = task[h] \/ (task[h].at # "send" /\ task'[h].at # "send")
BY DEF Goes, Tasks

\* A crash takes the waiting messages of one worker.
LEMMA CrashMessages ==
    ASSUME NEW w \in Worker, Crash(w), NEW u \in User
    PROVE  Messages(u)' \subseteq Messages(u)
<1>1. sent' = sent /\ \A h \in Worker \X Kind : task'[h] = Rest \/ task'[h] = task[h]
  BY DEF Crash
<1>2. SentTo(u)' = SentTo(u)
  BY <1>1 DEF SentTo
<1>3. Rest.at # "send"
  BY DEF Rest
<1>4. WaitingFor(u)' \subseteq WaitingFor(u)
  <2> SUFFICES ASSUME NEW m \in WaitingFor(u)' PROVE m \in WaitingFor(u)
    OBVIOUS
  <2>1. PICK h \in Worker \X Kind :
          /\ task'[h].at = "send"
          /\ \E t \in task'[h].batch : Owner[t] = u /\ m = Message(t, h, task'[h].seq[t])
    BY DEF WaitingFor, Message
  <2>2. task'[h] = task[h]
    BY <1>1, <1>3, <2>1
  <2> QED BY <2>1, <2>2, MessageIs
<1> QED BY <1>2, <1>4 DEF Messages

\* Places of sent and of waiting messages differ.
LEMMA PlacesDiffer ==
    ASSUME NEW i, NEW h \in Worker \X Kind
    PROVE  <<i>> # h
<1>1. PICK w \in Worker, k \in Kind : h = <<w, k>>
  OBVIOUS
<1>2. Len(<<i>>) = 1 /\ Len(<<w, k>>) = 2
  OBVIOUS
<1> QED BY <1>1, <1>2

\* A message that is sent keeps its number.
LEMMA SendTells ==
    ASSUME Sound, NEW w \in Worker, NEW k \in Kind, Send(w, k),
           NEW u \in User, Tells(u)
    PROVE  Tells(u)'
<1> DEFINE h == <<w, k>>
           batch == task[h].batch
           at(t) == IF batch = {t} THEN "save" ELSE "send"
           seq(t) == [task[h].seq EXCEPT ![t] = 0]
<1>1. PICK t \in batch :
        /\ sent' = [sent EXCEPT ![t] = Append(@, task[h].seq[t])]
        /\ Goes(w, k, at(t), batch \ {t}, seq(t))
  BY DEF Send
<1>2. /\ counter' = counter /\ crashes' = crashes
      /\ task[h].at = "send" /\ h \in Worker \X Kind
      /\ task \in Tasks /\ sent \in [Trade -> Seq(Nat)]
  BY DEF Send, redis, count, Sound, Typed
<1>3. batch \subseteq Trade /\ task[h].seq \in [Trade -> Nat]
  BY <1>2, TaskParts
<1> DEFINE n == task[h].seq[t]
           old == Message(t, h, n)
           len == Len(sent[t])
           new == Message(t, <<len + 1>>, n)
<1>4. /\ \A x \in Trade : sent'[x] = IF x = t THEN Append(sent[t], n) ELSE sent[x]
      /\ len \in Nat
      /\ DOMAIN sent[t] = 1..len
      /\ DOMAIN sent'[t] = 1..len + 1
      /\ \A i \in 1..len : sent'[t][i] = sent[t][i]
      /\ sent'[t][len + 1] = n
  <2>1. sent[t] \in Seq(Nat) /\ n \in Nat /\ t \in Trade
    BY <1>2, <1>3
  <2>2. \A x \in Trade : sent'[x] = IF x = t THEN Append(sent[t], n) ELSE sent[x]
    BY <1>1, <1>2, <2>1
  <2>3. sent'[t] = Append(sent[t], n)
    BY <2>1, <2>2
  <2> HIDE DEF n
  <2> QED BY <2>1, <2>2, <2>3
<1>5. \A g \in Worker \X Kind :
        task'[g] = IF g = h THEN [at |-> at(t), batch |-> batch \ {t}, seq |-> seq(t)]
                   ELSE task[g]
  BY <1>1, <1>2 DEF Goes, Tasks
<1>6. \A x \in batch \ {t} : seq(t)[x] = task[h].seq[x]
  BY <1>3
<1>7. old # new
  BY <1>2, PlacesDiffer DEF Message
<1> HIDE DEF n, len
\* Messages(u) after the step, one by one.
<1>8. SentTo(u)' = IF Owner[t] = u THEN SentTo(u) \cup {new} ELSE SentTo(u)
  <2> DEFINE Now(x, m) == \E i \in DOMAIN sent[x] : m = Message(x, <<i>>, sent[x][i])
             Then(x, m) == \E i \in DOMAIN sent'[x] : m = Message(x, <<i>>, sent'[x][i])
  <2>1. \A m : m \in SentTo(u)' <=> \E x \in Trade : Owner[x] = u /\ Then(x, m)
    BY DEF SentTo, Message
  <2>2. \A m : m \in SentTo(u) <=> \E x \in Trade : Owner[x] = u /\ Now(x, m)
    BY DEF SentTo, Message
  <2>3. \A m : \A x \in Trade : x # t => (Then(x, m) <=> Now(x, m))
    BY <1>4
  <2>4. \A m : Then(t, m) <=> Now(t, m) \/ m = new
    <3>1. \A i \in DOMAIN sent[t] : sent'[t][i] = sent[t][i]
      BY <1>4
    <3>2. new = Message(t, <<len + 1>>, sent'[t][len + 1])
      BY <1>4 DEF new
    <3>3. DOMAIN sent'[t] = DOMAIN sent[t] \cup {len + 1}
      BY <1>4
    <3> HIDE DEF new
    <3> QED BY <3>1, <3>2, <3>3
  <2>5. t \in Trade
    BY <1>3
  <2> HIDE DEF new, Now, Then
  <2> QED BY <2>1, <2>2, <2>3, <2>4, <2>5
<1>9. WaitingFor(u)' = IF Owner[t] = u THEN WaitingFor(u) \ {old} ELSE WaitingFor(u)
  <2> DEFINE Now(g, m) == /\ task[g].at = "send"
                          /\ \E x \in task[g].batch : Owner[x] = u /\ m = Message(x, g, task[g].seq[x])
             Then(g, m) == /\ task'[g].at = "send"
                           /\ \E x \in task'[g].batch : Owner[x] = u /\ m = Message(x, g, task'[g].seq[x])
             Waits(m) == \E x \in batch \ {t} : Owner[x] = u /\ m = Message(x, h, task[h].seq[x])
  <2>1. \A m : m \in WaitingFor(u)' <=> \E g \in Worker \X Kind : Then(g, m)
    BY DEF WaitingFor, Message
  <2>2. \A m : m \in WaitingFor(u) <=> \E g \in Worker \X Kind : Now(g, m)
    BY DEF WaitingFor, Message
  <2>3. \A m : \A g \in Worker \X Kind : g # h => (Then(g, m) <=> Now(g, m))
    BY <1>5
  <2>4. \A m : Then(h, m) <=> Waits(m)
    <3>1. task'[h] = [at |-> at(t), batch |-> batch \ {t}, seq |-> seq(t)]
      BY <1>2, <1>5
    <3>2. /\ task'[h].at = at(t) /\ task'[h].batch = batch \ {t} /\ task'[h].seq = seq(t)
      BY <3>1
    <3>3. batch \ {t} # {} => at(t) = "send"
      OBVIOUS
    <3> HIDE DEF batch, at, seq
    <3> QED BY <1>6, <3>2, <3>3
  <2>5. \A m : Now(h, m) <=> Waits(m) \/ (Owner[t] = u /\ m = old)
    BY <1>2 DEF n
  <2>6. \A m : Waits(m) => m # old
    BY DEF Message
  <2>7. \A m : \A g \in Worker \X Kind : g # h /\ Now(g, m) => m # old
    BY DEF Message
  <2>8. h \in Worker \X Kind
    BY <1>2
  <2> HIDE DEF old, h, batch, Now, Then, Waits
  <2>9. \A m : m \in WaitingFor(u)' <=> m \in IF Owner[t] = u THEN WaitingFor(u) \ {old}
                                                ELSE WaitingFor(u)
    BY <2>1, <2>2, <2>3, <2>4, <2>5, <2>6, <2>7, <2>8
  <2> QED BY <2>9
<1>10. /\ old \notin SentTo(u) /\ new.seq = old.seq
       /\ Owner[t] = u => old \in WaitingFor(u)
  <2>1. \A x, y : \A i : Message(x, <<i>>, y) # old
    BY <1>2, PlacesDiffer DEF Message
  <2>2. new.seq = old.seq
    BY DEF Message
  <2>3. Owner[t] = u => old \in WaitingFor(u)
    BY <1>2, MessageIs DEF n
  <2>4. \A m \in SentTo(u) : \E x, y, i : m = Message(x, <<i>>, y)
    BY DEF SentTo, Message
  <2> HIDE DEF old, new
  <2>5. old \notin SentTo(u)
    <3> SUFFICES ASSUME old \in SentTo(u) PROVE FALSE
      OBVIOUS
    <3>1. PICK x, y, i : old = Message(x, <<i>>, y)
      BY <2>4
    <3> QED BY <2>1, <3>1
  <2> QED BY <2>2, <2>3, <2>5
<1> HIDE DEF old, new
<1>11. CASE Owner[t] # u
  <2>1. Messages(u)' = Messages(u)
    BY <1>8, <1>9, <1>11 DEF Messages
  <2> QED BY <1>2, <2>1, FewerMessages
<1>12. CASE Owner[t] = u
  <2>1. Messages(u)' = (Messages(u) \ {old}) \cup {new} /\ old \in Messages(u)
    BY <1>7, <1>8, <1>9, <1>10, <1>12 DEF Messages
  <2>2. ASSUME NEW a \in Messages(u)', NEW b \in Messages(u)', a.seq = b.seq
        PROVE  a = b
    BY <1>10, <2>1, <2>2 DEF Tells
  <2>3. NumbersTo(u)' = NumbersTo(u)
    <3>1. NumbersTo(u) = {m.seq : m \in Messages(u)}
      BY DEF NumbersTo
    <3>2. NumbersTo(u)' = {m.seq : m \in Messages(u)'}
      BY DEF NumbersTo
    <3> QED BY <1>10, <2>1, <3>1, <3>2
  <2> QED BY <1>2, <2>2, <2>3 DEF Tells
<1> QED BY <1>11, <1>12

\* The trades of a batch for one user, and the place of each in their order.
Mine(S, u) == {t \in S : Owner[t] = u}
Earlier(S, t) == {x \in SameChannel(S, t) : Before(x, t)}
Rank(S, t) == Cardinality(Earlier(S, t)) + 1

\* A batch is numbered without a gap and without a repetition.
LEMMA RanksCount ==
    ASSUME Table, NEW S \in SUBSET Trade, NEW u \in User
    PROVE  /\ IsFiniteSet(Mine(S, u)) /\ Cardinality(Mine(S, u)) \in Nat
           /\ \A t \in Mine(S, u) : Rank(S, t) \in 1..Cardinality(Mine(S, u))
           /\ \A s, t \in Mine(S, u) : Rank(S, s) = Rank(S, t) => s = t
           /\ \A j \in 1..Cardinality(Mine(S, u)) : \E t \in Mine(S, u) : Rank(S, t) = j
<1> DEFINE M == Mine(S, u)
           n == Cardinality(M)
           E(t) == Earlier(S, t)
<1>1. M \subseteq Trade /\ IsFiniteSet(M) /\ n \in Nat
  <2>1. M \in SUBSET Trade
    BY DEF Mine
  <2>2. IsFiniteSet(M)
    BY <2>1, NotifierAssumption, FS_Subset DEF NotifierAssumption
  <2> HIDE DEF M
  <2> QED BY <2>1, <2>2, FS_CardinalityType
<1>2. \A t \in M : E(t) = {x \in M : Before(x, t)}
  BY DEF Mine, Earlier, SameChannel
<1>3. \A t \in Trade : created[t] \in Nat /\ t \in Nat
  BY TradesAreNumbers DEF Table
<1>4. /\ \A t \in Trade : ~Before(t, t)
      /\ \A s, t \in Trade : s = t \/ Before(s, t) \/ Before(t, s)
      /\ \A r, s, t \in Trade : Before(r, s) /\ Before(s, t) => Before(r, t)
  BY <1>3 DEF Before
<1>5. \A t \in M : E(t) \subseteq M \ {t} /\ IsFiniteSet(E(t)) /\ Cardinality(E(t)) \in Nat
  <2> SUFFICES ASSUME NEW t \in M
               PROVE  E(t) \subseteq M \ {t} /\ IsFiniteSet(E(t)) /\ Cardinality(E(t)) \in Nat
    OBVIOUS
  <2>1. E(t) \subseteq M \ {t}
    BY <1>1, <1>2, <1>4
  <2> HIDE DEF E, M
  <2> QED BY <1>1, <2>1, CountFewer
<1>6. \A s, t \in M : Before(s, t) => E(s) \subseteq E(t) \ {s} /\ s \in E(t)
  BY <1>1, <1>2, <1>4
<1> DEFINE f == [t \in M |-> Rank(S, t)]
<1>7. \A t \in M : Rank(S, t) = Cardinality(E(t)) + 1
  BY DEF Rank
<1> HIDE DEF E, M
<1>8. ASSUME NEW t \in M PROVE Rank(S, t) \in 1..n
  <2>1. Cardinality(E(t)) + 1 <= n
    BY <1>1, <1>5, CountOneLess
  <2> QED BY <1>1, <1>5, <1>7, <2>1
<1>9. ASSUME NEW s \in M, NEW t \in M, Before(s, t) PROVE Rank(S, s) < Rank(S, t)
  <2>1. Cardinality(E(s)) + 1 <= Cardinality(E(t))
    BY <1>5, <1>6, <1>9, CountOneLess
  <2> QED BY <1>5, <1>7, <2>1
<1>10. ASSUME NEW s \in M, NEW t \in M, Rank(S, s) = Rank(S, t) PROVE s = t
  <2>1. Rank(S, s) \in Nat /\ Rank(S, t) \in Nat
    BY <1>1, <1>8
  <2> QED BY <1>1, <1>4, <1>9, <1>10, <2>1
<1>11. f \in Injection(M, 1..n)
  BY <1>8, <1>10 DEF Injection, IsInjective
<1>12. IsFiniteSet(1..n) /\ Cardinality(1..n) = n
  BY <1>1, FS_Interval
<1>13. f \in Surjection(M, 1..n)
  <2> HIDE DEF f
  <2> QED BY <1>11, <1>12, FS_Injection
<1>14. \A j \in 1..n : \E t \in M : Rank(S, t) = j
  BY <1>13 DEF Surjection
<1> QED BY <1>1, <1>8, <1>10, <1>14 DEF M

\* Redis gives the next numbers to a batch.
LEMMA NumberTells ==
    ASSUME Sound, NEW w \in Worker, NEW k \in Kind, Number(w, k), faults' = faults,
           NEW u \in User, Tells(u)
    PROVE  Tells(u)'
<1> DEFINE h == <<w, k>>
           batch == task[h].batch
           at == IF batch = {} THEN "save" ELSE "send"
           M == Mine(batch, u)
           n == Cardinality(M)
           c == counter[u]
           new == {Message(t, h, c + Rank(batch, t)) : t \in M}
<1>0. /\ Table /\ task \in Tasks /\ h \in Worker \X Kind /\ counter \in [User -> Nat]
      /\ faults \in Nat /\ task[h].at = "number" /\ batch \in SUBSET Trade
  BY TaskParts DEF Sound, Typed, Number
<1>1. /\ counter' = Counted(batch, counter)
      /\ Goes(w, k, at, batch, Numbered(batch, counter))
      /\ sent' = sent /\ crashes' = crashes
  BY <1>0 DEF Number, Fault
<1>2. \A g \in Worker \X Kind :
        task'[g] = IF g = h THEN [at |-> at, batch |-> batch, seq |-> Numbered(batch, counter)]
                   ELSE task[g]
  BY <1>0, <1>1 DEF Goes, Tasks
<1>3. \A t \in M : Numbered(batch, counter)[t] = c + Rank(batch, t) /\ t \in batch
  <2> SUFFICES ASSUME NEW t \in M
               PROVE  Numbered(batch, counter)[t] = c + Rank(batch, t) /\ t \in batch
    OBVIOUS
  <2>1. t \in batch /\ t \in Trade /\ Owner[t] = u
    BY <1>0 DEF Mine
  <2>2. Numbered(batch, counter)[t] = c + 1 + Cardinality(Earlier(batch, t))
    BY <2>1 DEF Numbered, Earlier
  <2>3. Cardinality(Earlier(batch, t)) \in Nat
    <3>1. Earlier(batch, t) \in SUBSET Trade
      BY <1>0 DEF Earlier, SameChannel
    <3> QED BY <3>1, NotifierAssumption, FS_Subset, FS_CardinalityType DEF NotifierAssumption
  <2> HIDE DEF batch
  <2>4. c \in Nat
    BY <1>0
  <2> HIDE DEF c
  <2> QED BY <2>1, <2>2, <2>3, <2>4 DEF Rank
<1>4. /\ n \in Nat /\ c \in Nat
      /\ \A t \in M : Rank(batch, t) \in 1..n
      /\ \A s, t \in M : Rank(batch, s) = Rank(batch, t) => s = t
      /\ \A j \in 1..n : \E t \in M : Rank(batch, t) = j
  <2> HIDE DEF batch
  <2> QED BY <1>0, RanksCount
<1>5. counter'[u] = c + n
  BY <1>1 DEF Counted, Mine
<1>6. SentTo(u)' = SentTo(u)
  BY <1>1 DEF SentTo
<1>7. WaitingFor(u)' = WaitingFor(u) \cup new
  <2> DEFINE Now(g, m) == /\ task[g].at = "send"
                          /\ \E x \in task[g].batch : Owner[x] = u /\ m = Message(x, g, task[g].seq[x])
             Then(g, m) == /\ task'[g].at = "send"
                           /\ \E x \in task'[g].batch : Owner[x] = u /\ m = Message(x, g, task'[g].seq[x])
  <2>1. \A m : m \in WaitingFor(u)' <=> \E g \in Worker \X Kind : Then(g, m)
    BY DEF WaitingFor, Message
  <2>2. \A m : m \in WaitingFor(u) <=> \E g \in Worker \X Kind : Now(g, m)
    BY DEF WaitingFor, Message
  <2>3. \A m : \A g \in Worker \X Kind : g # h => (Then(g, m) <=> Now(g, m))
    BY <1>2
  <2>4. \A m : ~Now(h, m)
    BY <1>0
  <2>5. \A m : Then(h, m) <=> m \in new
    <3>1. task'[h] = [at |-> at, batch |-> batch, seq |-> Numbered(batch, counter)]
      BY <1>0, <1>2
    <3>2. /\ task'[h].at = at /\ task'[h].batch = batch
          /\ task'[h].seq = Numbered(batch, counter)
      BY <3>1
    <3>3. batch # {} => at = "send"
      OBVIOUS
    <3>4. \A x \in batch : Owner[x] = u <=> x \in M
      BY DEF Mine
    <3>5. M \subseteq batch
      BY DEF Mine
    <3> HIDE DEF batch, at, M, c, h
    <3> QED BY <1>3, <3>2, <3>3, <3>4, <3>5
  <2> HIDE DEF h, batch, Now, Then, new
  <2>6. \A m : m \in WaitingFor(u)' <=> m \in WaitingFor(u) \cup new
    BY <1>0, <2>1, <2>2, <2>3, <2>4, <2>5
  <2> QED BY <2>6
<1>8. Messages(u)' = Messages(u) \cup new
  BY <1>6, <1>7 DEF Messages
<1>9. NumbersTo(u)' = NumbersTo(u) \cup {m.seq : m \in new}
  <2> HIDE DEF new
  <2>1. NumbersTo(u) = {m.seq : m \in Messages(u)} /\ NumbersTo(u)' = {m.seq : m \in Messages(u)'}
    BY DEF NumbersTo
  <2> QED BY <1>8, <2>1
<1> HIDE DEF batch, h, at
<1>10. {m.seq : m \in new} = c + 1..c + n
  <2> HIDE DEF M, n, c
  <2>1. {m.seq : m \in new} = {c + Rank(batch, t) : t \in M}
    <3>1. \A t, s : Message(t, h, s).seq = s
      BY DEF Message
    <3>2. \A a \in new : \E t \in M : a.seq = c + Rank(batch, t)
      BY <3>1
    <3>3. \A t \in M : \E a \in new : a.seq = c + Rank(batch, t)
      BY <3>1
    <3> HIDE DEF new
    <3> QED BY <3>2, <3>3
  <2>2. \A t \in M : c + Rank(batch, t) \in c + 1..c + n
    BY <1>4
  <2>3. ASSUME NEW j \in c + 1..c + n PROVE \E t \in M : j = c + Rank(batch, t)
    <3>1. j - c \in 1..n
      BY <1>4
    <3>2. PICK t \in M : Rank(batch, t) = j - c
      BY <1>4, <3>1
    <3>3. j = c + Rank(batch, t)
      BY <1>4, <3>2
    <3> QED BY <3>3
  <2> QED BY <2>1, <2>2, <2>3
<1>11. /\ \A a \in Messages(u) : a.seq \in 1..c
       /\ NumbersTo(u) \subseteq 1..c
  BY DEF Tells, NumbersTo
<1>12. \A a \in new : \E t \in M : a = Message(t, h, c + Rank(batch, t)) /\ a.seq = c + Rank(batch, t)
  BY DEF Message
<1>13. \A a \in new : a.seq \in c + 1..c + n
  BY <1>10
<1> HIDE DEF new, M, n, c
<1>14. ASSUME NEW a \in Messages(u)', NEW b \in Messages(u)', a.seq = b.seq
       PROVE  a = b
  <2>1. CASE a \in Messages(u) /\ b \in Messages(u)
    BY <1>14, <2>1 DEF Tells
  <2>2. CASE a \in new /\ b \in new
    <3>1. PICK s \in M : a = Message(s, h, c + Rank(batch, s)) /\ a.seq = c + Rank(batch, s)
      BY <1>12, <2>2
    <3>2. PICK t \in M : b = Message(t, h, c + Rank(batch, t)) /\ b.seq = c + Rank(batch, t)
      BY <1>12, <2>2
    <3>3. Rank(batch, s) = Rank(batch, t)
      BY <1>4, <1>14, <3>1, <3>2
    <3> QED BY <1>4, <3>1, <3>2, <3>3
  <2>3. CASE (a \in new /\ b \in Messages(u)) \/ (a \in Messages(u) /\ b \in new)
    BY <1>4, <1>11, <1>13, <1>14, <2>3
  <2> QED BY <1>8, <2>1, <2>2, <2>3
<1>15. 1..c + n = (1..c) \cup (c + 1..c + n)
  BY <1>4
<1>16. NumbersTo(u)' \subseteq 1..counter'[u]
  BY <1>5, <1>9, <1>10, <1>11, <1>15
<1>17. crashes' = 0 => NumbersTo(u)' = 1..counter'[u]
  <2>1. crashes' = 0 => NumbersTo(u) = 1..c
    BY <1>1 DEF Tells, c
  <2> QED BY <1>5, <1>9, <1>10, <1>15, <2>1
<1> QED BY <1>14, <1>16, <1>17 DEF Tells

\* Every step keeps what a user's messages promise.
LEMMA StepTold ==
    ASSUME Sound, Told, [Next]_vars
    PROVE  Told'
<1> SUFFICES ASSUME faults' = 0, NEW u \in User PROVE Tells(u)'
  BY DEF Told
<1>0. /\ task \in Tasks /\ faults \in Nat /\ crashes \in Nat
      /\ (faults' = faults \/ Fault => faults' = faults /\ faults = 0)
      /\ (faults = 0 => Tells(u))
  BY DEF Sound, Typed, Others, Fault, Told
<1> DEFINE Same == /\ Messages(u)' = Messages(u)
                   /\ UNCHANGED <<counter, crashes>>
                   /\ faults' = faults \/ Fault
           Aside == \A h \in Worker \X Kind :
                       task'[h] = task[h] \/ (task[h].at # "send" /\ task'[h].at # "send")
           Silent == UNCHANGED <<sent, counter, crashes>> /\ (faults' = faults \/ Fault)
<1>a. Same => Tells(u)'
  BY <1>0, FewerMessages
<1>b. Aside /\ Silent => Tells(u)'
  BY <1>a, SameMessages
<1>c. task' = task => Aside
  OBVIOUS
<1>d. ASSUME NEW w \in Worker, NEW k \in Kind, NEW at, at # "send", NEW S, NEW seq,
             Goes(w, k, at, S, seq), task[<<w, k>>].at # "send"
      PROVE  Aside
  BY <1>0, <1>d, GoesElsewhere
<1>e. ASSUME NEW w \in Worker, NEW k \in Kind, NEW at, at # "send",
             Becomes(w, k, at), task[<<w, k>>].at # "send"
      PROVE  Aside
  BY <1>d, <1>e DEF Becomes
<1> HIDE DEF Same, Aside
<1>1. ASSUME NEW w \in Worker, Begin(w) PROVE Tells(u)'
  BY <1>1, <1>b, <1>c DEF Begin, redis, count
<1>2. ASSUME NEW w \in Worker, Commit(w) \/ PassFails(w) PROVE Tells(u)'
  <2>1. Silent
    BY <1>2 DEF Commit, PassFails, redis, count
  <2>2. task[<<w, "pass">>].at # "send"
    <3>1. CASE PassFails(w)
      BY <3>1 DEF PassFails
    <3>2. CASE Commit(w)
      BY <3>2 DEF Commit, Sound, Busy
    <3> QED BY <1>2, <3>1, <3>2
  <2> QED BY <1>2, <1>b, <1>d, <2>1, <2>2, RestTyped DEF Commit, PassFails
<1>3. ASSUME NEW w \in Worker, NEW k \in Kind, Claim(w, k) PROVE Tells(u)'
  <2>1. Silent
    BY <1>3 DEF Claim
  <2>2. task[<<w, k>>].at # "send"
    BY <1>3 DEF Claim, MayClaim
  <2>3. Aside
    BY <1>3, <1>d, <1>e, <2>2 DEF Claim
  <2> QED BY <1>b, <2>1, <2>3
<1>4. ASSUME NEW w \in Worker, NEW k \in Kind, Number(w, k) PROVE Tells(u)'
  <2>1. faults' = faults \/ Fault
    BY <1>4 DEF Number
  <2> QED BY <1>0, <1>4, <2>1, NumberTells
<1>5. ASSUME NEW w \in Worker, NEW k \in Kind, Send(w, k) PROVE Tells(u)'
  <2>1. faults' = faults
    BY <1>5 DEF Send, count
  <2> QED BY <1>0, <1>5, <2>1, SendTells
<1>6. ASSUME NEW w \in Worker, NEW k \in Kind, Save(w, k) PROVE Tells(u)'
  <2>1. Silent
    BY <1>6 DEF Save, Persist
  <2>2. task[<<w, k>>].at # "send" /\ (Becomes(w, k, "idle") \/ Becomes(w, k, "keep"))
    BY <1>6 DEF Save
  <2>3. Aside
    BY <1>e, <2>2
  <2> QED BY <1>b, <2>1, <2>3
<1>7. ASSUME NEW w \in Worker, Lead(w) \/ Load(w) \/ Keep(w) PROVE Tells(u)'
  <2>1. Silent
    BY <1>7 DEF Lead, Load, Keep, Persist, redis, count
  <2>2. /\ task[<<w, "poll">>].at # "send"
        /\ \/ Becomes(w, "poll", "idle") \/ Becomes(w, "poll", "read")
           \/ Becomes(w, "poll", "load")
    BY <1>7 DEF Lead, Load, Keep
  <2>3. Aside
    BY <1>e, <2>2, RestTyped
  <2> QED BY <1>b, <2>1, <2>3
<1>8. ASSUME NEW w \in Worker, Follow(w) PROVE Tells(u)'
  BY <1>8, <1>b, <1>c DEF Follow
<1>9. ASSUME NEW w \in Worker, Read(w) \/ ReadFails(w) PROVE Tells(u)'
  <2>1. Silent
    BY <1>9 DEF Read, ReadFails, redis, count
  <2>2. /\ task[<<w, "poll">>].at # "send"
        /\ \E at, S : at # "send" /\ Goes(w, "poll", at, S, NoSeq)
    BY <1>9 DEF Read, ReadFails
  <2>3. Aside
    BY <1>d, <2>2, RestTyped
  <2> QED BY <1>b, <2>1, <2>3
<1>10. ASSUME NEW w \in Worker, Check(w) PROVE Tells(u)'
  <2>1. Silent
    BY <1>10 DEF Check, redis
  <2>2. /\ task[<<w, "poll">>].at # "send"
        /\ \E at, S : at # "send" /\ Goes(w, "poll", at, S, NoSeq)
    BY <1>10 DEF Check
  <2>3. Aside
    BY <1>d, <2>2, RestTyped
  <2> QED BY <1>b, <2>1, <2>3
<1>11. ASSUME NEW w \in Worker, Crash(w) PROVE Tells(u)'
  <2>1. /\ counter' = counter /\ crashes' = crashes + 1 /\ faults' = faults
        /\ Messages(u)' \subseteq Messages(u)
    BY <1>11, CrashMessages DEF Crash
  <2>2. crashes' # 0
    BY <1>0, <2>1
  <2> QED BY <1>0, <2>1, <2>2, FewerMessages
<1>12. CASE LockLapses \/ Tick \/ UNCHANGED vars \/ \E t \in Trade : ClaimLapses(t)
  <2>1. task' = task /\ Silent
    BY <1>12 DEF LockLapses, Tick, vars, ClaimLapses, redis, count
  <2> QED BY <1>b, <1>c, <2>1
<1> QED BY <1>1, <1>2, <1>3, <1>4, <1>5, <1>6, <1>7, <1>8, <1>9, <1>10, <1>11, <1>12
           DEF Next, Push, Poll

\* At first there is no message.
LEMMA InitTold == Init => Told
<1> SUFFICES ASSUME Init, NEW u \in User PROVE Tells(u)
  BY DEF Told
<1>1. SentTo(u) = {}
  BY DEF Init, SentTo
<1>2. \A h \in Worker \X Kind : task[h].at # "send"
  BY DEF Init, Rest
<1>3. WaitingFor(u) = {}
  BY <1>2 DEF WaitingFor
<1>4. Messages(u) = {} /\ counter[u] = 0
  BY <1>1, <1>3 DEF Messages, Init
<1>5. NumbersTo(u) = {} /\ 1..counter[u] = {}
  BY <1>4 DEF NumbersTo
<1> QED BY <1>4, <1>5 DEF Tells

\* However many workers number and send, crash and take over: as long as Redis
\* answers no number is given to two of a user's messages, and without a crash
\* none is missing (_assign_seqs and the sending loop of trade_ws.py).
THEOREM NumbersTellLossHolds == Spec => []NumbersTellLoss
<1>1. Init => Sound /\ Told
  BY InitSound, InitTold
<1>2. Sound /\ Told /\ [Next]_vars => (Sound /\ Told)'
  BY StepSound, StepTold
<1>3. Sound /\ Told => NumbersTellLoss
  BY SoundTypes DEF NumbersTellLoss, Told, Tells
<1> QED BY <1>1, <1>2, <1>3, PTL DEF Spec
=============================================================================
