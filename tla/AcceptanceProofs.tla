--------------------------- MODULE AcceptanceProofs ---------------------------
(***************************************************************************)
(* Proofs about Acceptance, for any jobs, submissions, limits and quota: the  *)
(* ledger explains the balances, no unit is lost or spent twice, a submission  *)
(* becomes one job, and the account implements the promise of Allowance.     *)
(***************************************************************************)
EXTENDS Acceptance, FiniteSetTheorems, TLAPS

Used == {j \in Jobs : job[j].status # "none"}

(* The jobs that hold a unit of kind k.                                      *)
Holders(k) == {j \in Active : job[j].charge = "reserved" /\ job[j].kind = k}

(* What a job not in use is, and what one in use is not.                      *)
JobInv ==
    \A j \in Jobs :
        /\ job[j].status = "none" <=> job[j].submission = NoSubmission
        /\ job[j].status = "none" => ~job[j].recent
        /\ job[j].charge = "reserved" => job[j].status = "active" /\ job[j].kind \in Kinds

(* A balance b and its entries e.                                            *)
Explained(b, e) ==
    /\ b \in Balance
    /\ e \in Entries
    /\ b.granted + e.expire = e.grant
    /\ b.reserved + e.consume + e.release = e.reserve
    /\ b.consumed = e.consume
    /\ b.reserved + b.consumed <= b.granted

Account(balances, entries) ==
    /\ balances \in [Kinds -> Balance]
    /\ entries \in [Kinds -> Entries]
    /\ \A k \in Kinds : Explained(balances[k], entries[k])

Held == \A k \in Kinds : balance[k].reserved = Cardinality(Holders(k))

IInv ==
    /\ TypeOK
    /\ JobInv
    /\ IsFiniteSet(Used)
    /\ Account(balance, ledger)
    /\ ledger["free"].expire = 0
    /\ Held
    /\ LimitsRespected
    /\ OneJobPerSubmission
    /\ GiftsOnce

LEMMA InitInv == Init => IInv
  <1> SUFFICES ASSUME Init PROVE IInv
    OBVIOUS
  <1>1. TypeOK
    <2>1. /\ job \in [Jobs -> Job]
          /\ balance \in [Kinds -> Balance]
          /\ ledger \in [Kinds -> Entries]
      BY DEF Init, Job, Balance, Entries
    <2>2. /\ source \in BOOLEAN
          /\ plan \in [status : {"none", "active", "inactive"}, expired : BOOLEAN]
      BY DEF Init
    <2>3. purchases \in 0..MaxPurchases
      BY ConstantsAssumption DEF Init, ConstantsAssumption
    <2> QED BY <2>1, <2>2, <2>3 DEF TypeOK
  <1>2. JobInv /\ GiftsOnce
    BY DEF Init, JobInv, GiftsOnce, Kinds
  <1>3. Account(balance, ledger) /\ ledger["free"].expire = 0
    BY <1>1 DEF Init, TypeOK, Account, Explained, Kinds
  <1>4. Used = {} /\ Active = {} /\ Recent = {} /\ \A k \in Kinds : Holders(k) = {}
    BY DEF Init, Used, Active, Recent, Holders
  <1>5. IsFiniteSet(Used) /\ Held /\ LimitsRespected
    <2>1. Cardinality({}) = 0 /\ IsFiniteSet({})
      BY FS_EmptySet
    <2>2. \A k \in Kinds : balance[k].reserved = 0
      BY DEF Init
    <2>3. MaxActive >= 0 /\ MaxRecent >= 0
      BY ConstantsAssumption DEF ConstantsAssumption
    <2> QED BY <1>4, <2>1, <2>2, <2>3 DEF Held, LimitsRespected
  <1>6. OneJobPerSubmission
    BY DEF Init, OneJobPerSubmission
  <1> QED BY <1>1, <1>2, <1>3, <1>5, <1>6 DEF IInv

-----------------------------------------------------------------------------
(* The account.                                                              *)

(* One row and its entries change together.                                  *)
LEMMA AccountUpdate ==
    ASSUME NEW balances, NEW entries, Account(balances, entries), NEW k \in Kinds,
           NEW b, NEW e, Explained(b, e)
    PROVE  Account([balances EXCEPT ![k] = b], [entries EXCEPT ![k] = e])
  <1> DEFINE bs == [balances EXCEPT ![k] = b]
             es == [entries EXCEPT ![k] = e]
  <1>1. b \in Balance /\ e \in Entries
    BY DEF Explained
  <1>2. bs \in [Kinds -> Balance] /\ es \in [Kinds -> Entries]
    BY <1>1 DEF Account
  <1>3. ASSUME NEW x \in Kinds PROVE Explained(bs[x], es[x])
    <2>1. CASE x = k
      <3>1. bs[x] = b /\ es[x] = e
        BY <2>1 DEF Account
      <3> QED BY <3>1
    <2>2. CASE x # k
      <3>1. bs[x] = balances[x] /\ es[x] = entries[x]
        BY <2>2 DEF Account
      <3> QED BY <3>1 DEF Account
    <2> QED BY <2>1, <2>2
  <1> HIDE DEF bs, es
  <1>4. Account(bs, es)
    BY <1>2, <1>3 DEF Account
  <1> QED BY <1>4 DEF bs, es

(* An explained balance and its entries, by their fields.                    *)
LEMMA Fields ==
    ASSUME NEW b, NEW e, Explained(b, e)
    PROVE  /\ b = [granted |-> b.granted, reserved |-> b.reserved, consumed |-> b.consumed]
           /\ e = [grant |-> e.grant, expire |-> e.expire, reserve |-> e.reserve,
                   consume |-> e.consume, release |-> e.release]
           /\ {b.granted, b.reserved, b.consumed} \subseteq Nat
           /\ {e.grant, e.expire, e.reserve, e.consume, e.release} \subseteq Nat
           /\ b.granted + e.expire = e.grant
           /\ b.reserved + e.consume + e.release = e.reserve
           /\ b.consumed = e.consume
           /\ b.reserved + b.consumed <= b.granted
  BY DEF Explained, Balance, Entries

(* What makes a pair of records explained.                                   *)
LEMMA Build ==
    ASSUME NEW g \in Nat, NEW r \in Nat, NEW c \in Nat, NEW gt \in Nat, NEW x \in Nat,
           NEW rs \in Nat, NEW co \in Nat, NEW rl \in Nat,
           g + x = gt, r + co + rl = rs, c = co, r + c <= g
    PROVE  Explained([granted |-> g, reserved |-> r, consumed |-> c],
                     [grant |-> gt, expire |-> x, reserve |-> rs, consume |-> co, release |-> rl])
  BY DEF Explained, Balance, Entries

(* The changes of a balance and its entries.                                 *)
LEMMA Changes ==
    ASSUME NEW b, NEW e, Explained(b, e)
    PROVE  /\ \A n \in Nat : Explained([b EXCEPT !.granted = b.granted + n],
                                       [e EXCEPT !.grant = e.grant + n])
           /\ Available(b) > 0 => Explained([b EXCEPT !.reserved = b.reserved + 1],
                                            [e EXCEPT !.reserve = e.reserve + 1])
           /\ b.reserved > 0 =>
                 /\ Explained([b EXCEPT !.reserved = b.reserved - 1, !.consumed = b.consumed + 1],
                              [e EXCEPT !.consume = e.consume + 1])
                 /\ Explained([b EXCEPT !.reserved = b.reserved - 1],
                              [e EXCEPT !.release = e.release + 1])
           /\ \A n \in Nat : Explained([b EXCEPT !.granted = b.reserved + b.consumed + n],
                                       [e EXCEPT !.expire = e.expire + Available(b),
                                                 !.grant = e.grant + n])
  <1> DEFINE B(g, r, c) == [granted |-> g, reserved |-> r, consumed |-> c]
             E(gt, x, rs, co, rl) == [grant |-> gt, expire |-> x, reserve |-> rs,
                                      consume |-> co, release |-> rl]
  <1>f. /\ b = B(b.granted, b.reserved, b.consumed)
        /\ e = E(e.grant, e.expire, e.reserve, e.consume, e.release)
        /\ {b.granted, b.reserved, b.consumed} \subseteq Nat
        /\ {e.grant, e.expire, e.reserve, e.consume, e.release} \subseteq Nat
        /\ b.granted + e.expire = e.grant
        /\ b.reserved + e.consume + e.release = e.reserve
        /\ b.consumed = e.consume
        /\ b.reserved + b.consumed <= b.granted
    BY Fields
  <1>b. b \in Balance /\ e \in Entries
    BY DEF Explained
  <1>1. ASSUME NEW n \in Nat
        PROVE  Explained([b EXCEPT !.granted = b.granted + n], [e EXCEPT !.grant = e.grant + n])
    <2>1. /\ [b EXCEPT !.granted = b.granted + n] = B(b.granted + n, b.reserved, b.consumed)
          /\ [e EXCEPT !.grant = e.grant + n]
                = E(e.grant + n, e.expire, e.reserve, e.consume, e.release)
      BY <1>f
    <2>2. Explained(B(b.granted + n, b.reserved, b.consumed),
                    E(e.grant + n, e.expire, e.reserve, e.consume, e.release))
      <3>1. b.granted + n \in Nat /\ e.grant + n \in Nat
            /\ b.granted + n + e.expire = e.grant + n
            /\ b.reserved + b.consumed <= b.granted + n
        BY <1>f
      <3> QED BY <1>f, <3>1, Build
    <2> QED BY <2>1, <2>2
  <1>2. ASSUME Available(b) > 0
        PROVE  Explained([b EXCEPT !.reserved = b.reserved + 1], [e EXCEPT !.reserve = e.reserve + 1])
    <2>1. /\ [b EXCEPT !.reserved = b.reserved + 1] = B(b.granted, b.reserved + 1, b.consumed)
          /\ [e EXCEPT !.reserve = e.reserve + 1]
                = E(e.grant, e.expire, e.reserve + 1, e.consume, e.release)
      BY <1>f
    <2>2. Explained(B(b.granted, b.reserved + 1, b.consumed),
                    E(e.grant, e.expire, e.reserve + 1, e.consume, e.release))
      <3>1. b.reserved + 1 \in Nat /\ e.reserve + 1 \in Nat
            /\ b.reserved + 1 + e.consume + e.release = e.reserve + 1
            /\ b.reserved + 1 + b.consumed <= b.granted
        BY <1>f, <1>2 DEF Available
      <3> QED BY <1>f, <3>1, Build
    <2> QED BY <2>1, <2>2
  <1>3. ASSUME b.reserved > 0
        PROVE  /\ Explained([b EXCEPT !.reserved = b.reserved - 1, !.consumed = b.consumed + 1],
                            [e EXCEPT !.consume = e.consume + 1])
               /\ Explained([b EXCEPT !.reserved = b.reserved - 1],
                            [e EXCEPT !.release = e.release + 1])
    <2> DEFINE s == [b EXCEPT !.reserved = b.reserved - 1, !.consumed = b.consumed + 1]
               t == [e EXCEPT !.consume = e.consume + 1]
               u == [b EXCEPT !.reserved = b.reserved - 1]
               v == [e EXCEPT !.release = e.release + 1]
    <2>1. b.reserved - 1 \in Nat /\ b.consumed + 1 \in Nat
      BY <1>f, <1>3
    <2>2. /\ s \in Balance /\ s.granted = b.granted /\ s.reserved = b.reserved - 1
          /\ s.consumed = b.consumed + 1
      BY <1>b, <2>1 DEF Balance
    <2>3. /\ t \in Entries /\ t.grant = e.grant /\ t.expire = e.expire
          /\ t.reserve = e.reserve /\ t.consume = e.consume + 1 /\ t.release = e.release
      BY <1>b DEF Entries
    <2>4. /\ u \in Balance /\ u.granted = b.granted /\ u.reserved = b.reserved - 1
          /\ u.consumed = b.consumed
      BY <1>b, <2>1 DEF Balance
    <2>5. /\ v \in Entries /\ v.grant = e.grant /\ v.expire = e.expire
          /\ v.reserve = e.reserve /\ v.consume = e.consume /\ v.release = e.release + 1
      BY <1>b DEF Entries
    <2> HIDE DEF s, t, u, v
    <2>6. Explained(s, t) /\ Explained(u, v)
      BY <1>f, <2>2, <2>3, <2>4, <2>5 DEF Explained
    <2> QED BY <2>6 DEF s, t, u, v
  <1>4. ASSUME NEW n \in Nat
        PROVE  Explained([b EXCEPT !.granted = b.reserved + b.consumed + n],
                         [e EXCEPT !.expire = e.expire + Available(b), !.grant = e.grant + n])
    <2> DEFINE a == Available(b)
               s == [b EXCEPT !.granted = b.reserved + b.consumed + n]
               t == [e EXCEPT !.expire = e.expire + a, !.grant = e.grant + n]
    <2>0. a = b.granted - b.reserved - b.consumed /\ a \in Nat
      BY <1>f DEF Available
    <2> HIDE DEF a
    <2>1. b.reserved + b.consumed + n \in Nat /\ e.expire + a \in Nat /\ e.grant + n \in Nat
      BY <1>f, <2>0
    <2>2. /\ s \in Balance /\ s.granted = b.reserved + b.consumed + n
          /\ s.reserved = b.reserved /\ s.consumed = b.consumed
      BY <1>b, <2>1 DEF Balance
    <2>3. /\ t \in Entries /\ t.grant = e.grant + n /\ t.expire = e.expire + a
          /\ t.reserve = e.reserve /\ t.consume = e.consume /\ t.release = e.release
      BY <1>b, <2>1 DEF Entries
    <2> HIDE DEF s, t
    <2>4. Explained(s, t)
      BY <1>f, <2>0, <2>2, <2>3 DEF Explained
    <2> QED BY <2>4 DEF s, t, a
  <1> QED BY <1>1, <1>2, <1>3, <1>4

(* Opening the account keeps it explained and reserves nothing.              *)
LEMMA OpenedAccount ==
    ASSUME Account(balance, ledger), ledger["free"].expire = 0
    PROVE  /\ Account(Opened, OpenedLedger)
           /\ \A k \in Kinds : Opened[k].reserved = balance[k].reserved
           /\ Opened["bonus"] = balance["bonus"]
           /\ GiftsOnce => Opened["free"].granted <= 1
           /\ OpenedLedger["free"].expire = 0
  <1> DEFINE b == balance["free"]
             e == ledger["free"]
  <1>0. "free" \in Kinds /\ "bonus" \in Kinds
    BY DEF Kinds
  <1>1. CASE Unopened
    <2>1. Explained(b, e) /\ b.granted = 0
      BY <1>0, <1>1 DEF Account, Unopened
    <2>2. /\ e.grant = 0 /\ b \in Balance /\ e \in Entries
      BY <2>1, Fields DEF Explained
    <2>3. Explained([b EXCEPT !.granted = b.granted + 1], [e EXCEPT !.grant = e.grant + 1])
      BY <2>1, Changes
    <2>4. /\ Opened = [balance EXCEPT !["free"] = [b EXCEPT !.granted = b.granted + 1]]
          /\ OpenedLedger = [ledger EXCEPT !["free"] = [e EXCEPT !.grant = e.grant + 1]]
      BY <1>1, <2>1, <2>2 DEF Opened, OpenedLedger
    <2>5. Account(Opened, OpenedLedger)
      BY <1>0, <2>3, <2>4, AccountUpdate
    <2>6. \A k \in Kinds : k # "free" => Opened[k] = balance[k]
      BY <2>4 DEF Account
    <2>7. /\ Opened["free"].reserved = b.reserved /\ Opened["free"].granted = 1
          /\ OpenedLedger["free"].expire = 0
      BY <1>0, <2>1, <2>2, <2>4 DEF Account, Balance, Entries
    <2> QED BY <1>0, <2>5, <2>6, <2>7
  <1>2. CASE ~Unopened
    BY <1>0, <1>2 DEF Opened, OpenedLedger, GiftsOnce
  <1> QED BY <1>1, <1>2

(* Units are granted, perhaps with the bonus.                                *)
LEMMA Granted ==
    ASSUME Account(balance, ledger), NEW k \in {"intro", "package", "monthly"},
           NEW units \in Nat, NEW bonus \in BOOLEAN, Grant(k, units, bonus),
           bonus => Bonus, GiftsOnce
    PROVE  /\ Account(balance', ledger')
           /\ \A x \in Kinds : balance'[x].reserved = balance[x].reserved
           /\ GiftsOnce'
  <1>1. ASSUME NEW x \in Kinds, NEW n \in Nat
        PROVE  LET b == [balance[x] EXCEPT !.granted = balance[x].granted + n]
                   e == [ledger[x] EXCEPT !.grant = ledger[x].grant + n]
               IN  /\ Explained(b, e) /\ b.reserved = balance[x].reserved
                   /\ b.granted = balance[x].granted + n
    <2>1. Explained(balance[x], ledger[x]) /\ balance[x] \in Balance
      BY DEF Account
    <2> QED BY <2>1, Changes DEF Balance
  <1>2. \A x \in Kinds : Explained(balance[x], ledger[x])
    BY DEF Account
  <1>3. /\ balance' = [x \in Kinds |-> balance'[x]] /\ ledger' = [x \in Kinds |-> ledger'[x]]
        /\ \A x \in Kinds : /\ Explained(balance'[x], ledger'[x])
                            /\ balance'[x].reserved = balance[x].reserved
    BY <1>1, <1>2 DEF Grant
  <1>4. Account(balance', ledger')
    BY <1>3 DEF Account, Explained
  <1>5. "free" \in Kinds /\ "bonus" \in Kinds /\ k # "free" /\ k # "bonus"
    BY DEF Kinds
  <1>6. /\ balance'["free"] = balance["free"]
        /\ bonus => balance'["bonus"].granted = balance["bonus"].granted + 2
        /\ ~bonus => balance'["bonus"] = balance["bonus"]
    BY <1>1, <1>5 DEF Grant
  <1>7. GiftsOnce'
    BY <1>6 DEF GiftsOnce, Bonus
  <1> QED BY <1>3, <1>4, <1>7

-----------------------------------------------------------------------------
(* The jobs.                                                                 *)

(* The sets of jobs that are counted are finite.                             *)
LEMMA Finite ==
    ASSUME IInv
    PROVE  /\ IsFiniteSet(Active) /\ IsFiniteSet(Recent)
           /\ \A k \in Kinds : IsFiniteSet(Holders(k))
           /\ Cardinality(Active) \in Nat /\ Cardinality(Recent) \in Nat
           /\ \A k \in Kinds : Cardinality(Holders(k)) \in Nat
  <1>1. Active \subseteq Used /\ Recent \subseteq Used
    BY DEF IInv, JobInv, Active, Recent, Used
  <1>2. \A k \in Kinds : Holders(k) \subseteq Used
    BY <1>1 DEF Holders
  <1>3. IsFiniteSet(Used)
    BY DEF IInv
  <1> QED BY <1>1, <1>2, <1>3, FS_Subset, FS_CardinalityType

(* A job that holds a unit has it reserved in its balance.                   *)
LEMMA HeldIsReserved ==
    ASSUME IInv, NEW j \in Jobs, job[j].charge = "reserved"
    PROVE  job[j].kind \in Kinds /\ balance[job[j].kind].reserved > 0
  <1> DEFINE k == job[j].kind
  <1>1. k \in Kinds /\ job[j].status = "active"
    BY DEF IInv, JobInv
  <1>2. j \in Holders(k)
    BY <1>1 DEF Holders, Active
  <1>3. IsFiniteSet(Holders(k)) /\ Cardinality(Holders(k)) \in Nat
    BY <1>1, Finite
  <1>4. Cardinality(Holders(k)) # 0
    BY <1>2, <1>3, FS_EmptySet
  <1> QED BY <1>1, <1>3, <1>4 DEF IInv, Held

(* A new job.                                                                *)
LEMMA NewJob ==
    ASSUME IInv, NEW j \in Jobs, NEW s \in Submissions, job[j].status = "none", MayAccept(s),
           NEW kind \in Kinds \cup {"none"}, NEW charge \in {"exempt", "reserved"},
           charge = "reserved" => kind \in Kinds, Created(j, s, kind, charge)
    PROVE  /\ job' \in [Jobs -> Job]
           /\ JobInv'
           /\ IsFiniteSet(Used')
           /\ LimitsRespected'
           /\ OneJobPerSubmission'
           /\ \A k \in Kinds : Cardinality(Holders(k)') = Cardinality(Holders(k))
                + (IF charge = "reserved" /\ k = kind THEN 1 ELSE 0)
  <1> DEFINE new == [submission |-> s, status |-> "active", recent |-> TRUE,
                     kind |-> kind, charge |-> charge]
  <1>t. job \in [Jobs -> Job] /\ JobInv /\ IsFiniteSet(Used) /\ OneJobPerSubmission
        /\ s # NoSubmission
    BY ConstantsAssumption DEF IInv, TypeOK, ConstantsAssumption
  <1>1. new \in Job
    BY DEF Job
  <1>2. /\ job' = [job EXCEPT ![j] = new]
        /\ job' \in [Jobs -> Job]
        /\ job'[j] = new
        /\ \A i \in Jobs : i # j => job'[i] = job[i]
    BY <1>t, <1>1 DEF Created
  <1>3. JobInv'
    BY <1>t, <1>2 DEF JobInv
  <1>4. Used' = Used \cup {j} /\ Active' = Active \cup {j} /\ Recent' = Recent \cup {j}
    BY <1>2 DEF Used, Active, Recent
  <1>5. IsFiniteSet(Used')
    BY <1>t, <1>4, FS_AddElement
  <1>6. LimitsRespected'
    <2>1. Cardinality(Active') <= Cardinality(Active) + 1
          /\ Cardinality(Recent') <= Cardinality(Recent) + 1
      <3>1. Cardinality(Active \cup {j}) =
                IF j \in Active THEN Cardinality(Active) ELSE Cardinality(Active) + 1
        BY Finite, FS_AddElement
      <3>2. Cardinality(Recent \cup {j}) =
                IF j \in Recent THEN Cardinality(Recent) ELSE Cardinality(Recent) + 1
        BY Finite, FS_AddElement
      <3> QED BY <1>4, <3>1, <3>2, Finite
    <2>2. Cardinality(Active) < MaxActive /\ Cardinality(Recent) < MaxRecent
      BY DEF MayAccept
    <2>3. IsFiniteSet(Active') /\ IsFiniteSet(Recent')
      BY <1>4, Finite, FS_AddElement
    <2>4. Cardinality(Active') \in Nat /\ Cardinality(Recent') \in Nat
      BY <2>3, FS_CardinalityType
    <2>5. Cardinality(Active') <= MaxActive /\ Cardinality(Recent') <= MaxRecent
      BY <2>1, <2>2, <2>4, Finite, ConstantsAssumption DEF ConstantsAssumption
    <2> QED BY <2>5 DEF LimitsRespected
  <1>7. OneJobPerSubmission'
    BY <1>t, <1>2 DEF OneJobPerSubmission, MayAccept, JobInv
  <1>8. ASSUME NEW k \in Kinds
        PROVE  Cardinality(Holders(k)') = Cardinality(Holders(k))
                   + (IF charge = "reserved" /\ k = kind THEN 1 ELSE 0)
    <2>0. IsFiniteSet(Holders(k)) /\ Cardinality(Holders(k)) \in Nat /\ j \notin Holders(k)
      BY Finite DEF Holders, Active
    <2>1. CASE charge = "reserved" /\ k = kind
      <3>1. Holders(k)' = Holders(k) \cup {j}
        BY <1>2, <2>1 DEF Holders, Active
      <3> QED BY <2>0, <2>1, <3>1, FS_AddElement
    <2>2. CASE ~(charge = "reserved" /\ k = kind)
      <3>1. Holders(k)' = Holders(k)
        BY <1>2, <2>0, <2>2 DEF Holders, Active
      <3> QED BY <2>0, <2>2, <3>1
    <2> QED BY <2>1, <2>2
  <1> QED BY <1>2, <1>3, <1>5, <1>6, <1>7, <1>8

(* A job that ends, or leaves the window.                                    *)
LEMMA OldJob ==
    ASSUME IInv, NEW j \in Jobs, NEW new \in Job, job' = [job EXCEPT ![j] = new],
           job[j].status # "none", new.submission = job[j].submission,
           new.status # "none", new.status = "active" => job[j].status = "active",
           new.recent => job[j].recent, new.kind = job[j].kind,
           new.charge = "reserved" => new.status = "active" /\ job[j].charge = "reserved"
    PROVE  /\ job' \in [Jobs -> Job]
           /\ JobInv'
           /\ IsFiniteSet(Used')
           /\ LimitsRespected'
           /\ OneJobPerSubmission'
           /\ \A k \in Kinds : Cardinality(Holders(k)') = Cardinality(Holders(k))
                - (IF job[j].charge = "reserved" /\ new.charge # "reserved" /\ k = job[j].kind
                   THEN 1 ELSE 0)
  <1>t. job \in [Jobs -> Job] /\ JobInv /\ IsFiniteSet(Used) /\ OneJobPerSubmission
    BY DEF IInv, TypeOK
  <1>2. /\ job' \in [Jobs -> Job]
        /\ job'[j] = new
        /\ \A i \in Jobs : i # j => job'[i] = job[i]
    BY <1>t
  <1>3. JobInv'
    BY <1>t, <1>2 DEF JobInv
  <1>4. Used' = Used /\ Active' \subseteq Active /\ Recent' \subseteq Recent
    BY <1>2 DEF Used, Active, Recent
  <1>6. LimitsRespected'
    <2>1. Cardinality(Active') <= Cardinality(Active) /\ Cardinality(Recent') <= Cardinality(Recent)
          /\ IsFiniteSet(Active') /\ IsFiniteSet(Recent')
      BY <1>4, Finite, FS_Subset
    <2>2. Cardinality(Active') \in Nat /\ Cardinality(Recent') \in Nat
      BY <2>1, FS_CardinalityType
    <2>3. Cardinality(Active) <= MaxActive /\ Cardinality(Recent) <= MaxRecent
      BY DEF IInv, LimitsRespected
    <2>4. Cardinality(Active') <= MaxActive /\ Cardinality(Recent') <= MaxRecent
      BY <2>1, <2>2, <2>3, Finite, ConstantsAssumption DEF ConstantsAssumption
    <2> QED BY <2>4 DEF LimitsRespected
  <1>7. OneJobPerSubmission'
    BY <1>t, <1>2 DEF OneJobPerSubmission
  <1>8. ASSUME NEW k \in Kinds
        PROVE  Cardinality(Holders(k)') = Cardinality(Holders(k))
                - (IF job[j].charge = "reserved" /\ new.charge # "reserved" /\ k = job[j].kind
                   THEN 1 ELSE 0)
    <2>0. IsFiniteSet(Holders(k)) /\ Cardinality(Holders(k)) \in Nat
      BY Finite
    <2>1. CASE job[j].charge = "reserved" /\ new.charge # "reserved" /\ k = job[j].kind
      <3>1. j \in Holders(k)
        BY <1>t, <2>1 DEF Holders, Active, JobInv
      <3>2. Holders(k)' = Holders(k) \ {j}
        BY <1>2, <2>1 DEF Holders, Active
      <3> QED BY <2>0, <2>1, <3>1, <3>2, FS_RemoveElement
    <2>2. CASE ~(job[j].charge = "reserved" /\ new.charge # "reserved" /\ k = job[j].kind)
      <3>1. Holders(k)' = Holders(k)
        BY <1>t, <1>2, <2>2 DEF Holders, Active, JobInv
      <3> QED BY <2>0, <2>2, <3>1
    <2> QED BY <2>1, <2>2
  <1> QED BY <1>t, <1>2, <1>3, <1>4, <1>6, <1>7, <1>8

-----------------------------------------------------------------------------
(* The steps.                                                                *)

(* The part of the invariant that is about the account.                      *)
AccountInv ==
    /\ Account(balance, ledger)
    /\ ledger["free"].expire = 0
    /\ Held
    /\ GiftsOnce

(* The part about the jobs.                                                  *)
JobsInv ==
    /\ job \in [Jobs -> Job]
    /\ JobInv
    /\ IsFiniteSet(Used)
    /\ LimitsRespected
    /\ OneJobPerSubmission

(* The rest.                                                                 *)
UserInv ==
    /\ source \in BOOLEAN
    /\ plan \in [status : {"none", "active", "inactive"}, expired : BOOLEAN]
    /\ purchases \in 0..MaxPurchases

LEMMA InvParts == IInv <=> AccountInv /\ JobsInv /\ UserInv
  BY DEF IInv, AccountInv, JobsInv, UserInv, TypeOK, Account

LEMMA SameJobs ==
    ASSUME IInv, job' = job
    PROVE  JobsInv' /\ \A k \in Kinds : Cardinality(Holders(k)') = Cardinality(Holders(k))
  <1>1. Used' = Used /\ Active' = Active /\ Recent' = Recent
        /\ \A k \in Kinds : Holders(k)' = Holders(k)
    BY DEF Used, Active, Recent, Holders
  <1> QED BY <1>1, InvParts DEF JobsInv, JobInv, LimitsRespected, OneJobPerSubmission

LEMMA UserStep ==
    ASSUME IInv, Next
    PROVE  UserInv'
  <1>t. UserInv /\ MaxPurchases \in Nat
    BY InvParts, ConstantsAssumption DEF ConstantsAssumption
  <1>1. CASE BuyIntro \/ BuyPackage \/ Subscribe
    <2>1. purchases' = purchases + 1 /\ purchases < MaxPurchases /\ source' = source
      BY <1>1 DEF BuyIntro, BuyPackage, Subscribe, Grant
    <2>2. plan' = plan \/ plan' = [status |-> "active", expired |-> FALSE]
      BY <1>1 DEF BuyIntro, BuyPackage, Subscribe
    <2>3. plan' \in [status : {"none", "active", "inactive"}, expired : BOOLEAN]
      <3>1. [status |-> "active", expired |-> FALSE]
                \in [status : {"none", "active", "inactive"}, expired : BOOLEAN]
        OBVIOUS
      <3> QED BY <1>t, <2>2, <3>1, Zenon DEF UserInv
    <2>4. purchases' \in 0..MaxPurchases
      BY <1>t, <2>1 DEF UserInv
    <2> QED BY <1>t, <2>1, <2>3, <2>4 DEF UserInv
  <1>2. CASE Renew
    <2>1. /\ purchases' = purchases + 1 /\ purchases < MaxPurchases /\ source' = source
          /\ plan' = [plan EXCEPT !.expired = FALSE]
      BY <1>2 DEF Renew
    <2>3. plan' \in [status : {"none", "active", "inactive"}, expired : BOOLEAN]
      BY <1>t, <2>1 DEF UserInv
    <2>4. purchases' \in 0..MaxPurchases
      BY <1>t, <2>1 DEF UserInv
    <2> QED BY <1>t, <2>1, <2>3, <2>4 DEF UserInv
  <1>3. CASE EndPlan \/ SendPhoto \/ PeriodEnds
    BY <1>t, <1>3 DEF UserInv, EndPlan, SendPhoto, PeriodEnds
  <1>4. CASE UNCHANGED <<source, plan, purchases>>
    BY <1>t, <1>4 DEF UserInv
  <1> QED BY <1>1, <1>2, <1>3, <1>4
          DEF Next, Accept, AcceptExempt, Succeed, Fail, LeaveWindow

LEMMA AcceptStep ==
    ASSUME IInv, NEW j \in Jobs, NEW s \in Submissions, Accept(j, s)
    PROVE  AccountInv' /\ JobsInv'
  <1>1. PICK k \in Kinds :
           /\ Selected(k)
           /\ Created(j, s, k, "reserved")
           /\ balance' = [Opened EXCEPT ![k].reserved = @ + 1]
           /\ ledger' = [OpenedLedger EXCEPT ![k].reserve = @ + 1]
    BY DEF Accept
  <1> DEFINE b == [Opened[k] EXCEPT !.reserved = Opened[k].reserved + 1]
             e == [OpenedLedger[k] EXCEPT !.reserve = OpenedLedger[k].reserve + 1]
  <1>t. Account(balance, ledger) /\ ledger["free"].expire = 0 /\ GiftsOnce /\ Held
    BY DEF IInv
  <1>2. /\ Account(Opened, OpenedLedger)
        /\ \A x \in Kinds : Opened[x].reserved = balance[x].reserved
        /\ Opened["bonus"] = balance["bonus"]
        /\ Opened["free"].granted <= 1
        /\ OpenedLedger["free"].expire = 0
    BY <1>t, OpenedAccount
  <1>3. Explained(Opened[k], OpenedLedger[k]) /\ Available(Opened[k]) > 0
    BY <1>1, <1>2 DEF Account, Selected, Spendable
  <1>4. Explained(b, e)
    BY <1>3, Changes
  <1>5. /\ balance' = [Opened EXCEPT ![k] = b] /\ ledger' = [OpenedLedger EXCEPT ![k] = e]
    BY <1>1, <1>2 DEF Account
  <1>6. /\ b.reserved = Opened[k].reserved + 1 /\ b.granted = Opened[k].granted
        /\ e.expire = OpenedLedger[k].expire
    BY <1>3 DEF Explained, Balance, Entries
  <1> HIDE DEF b, e
  <1>7. Account(balance', ledger')
    BY <1>2, <1>4, <1>5, AccountUpdate
  <1>8. /\ \A x \in Kinds : x # k => balance'[x] = Opened[x] /\ ledger'[x] = OpenedLedger[x]
        /\ balance'[k] = b /\ ledger'[k] = e
    BY <1>2, <1>5 DEF Account
  <1>9. /\ \A x \in Kinds : balance'[x].granted = Opened[x].granted
                            /\ ledger'[x].expire = OpenedLedger[x].expire
        /\ "free" \in Kinds /\ "bonus" \in Kinds
    BY <1>6, <1>8 DEF Kinds
  <1>10. GiftsOnce' /\ ledger'["free"].expire = 0
    BY <1>2, <1>9, <1>t DEF GiftsOnce
  <1>11. /\ JobsInv'
         /\ \A x \in Kinds : Cardinality(Holders(x)') = Cardinality(Holders(x))
                + (IF x = k THEN 1 ELSE 0)
    BY <1>1, NewJob DEF Accept, JobsInv
  <1>12. ASSUME NEW x \in Kinds
         PROVE  balance'[x].reserved = Cardinality(Holders(x)')
    <2>1. balance[x].reserved = Cardinality(Holders(x)) /\ Cardinality(Holders(x)) \in Nat
      BY <1>t, Finite DEF Held
    <2> QED BY <1>2, <1>6, <1>8, <1>11, <2>1
  <1>13. Held'
    BY <1>12 DEF Held
  <1> QED BY <1>7, <1>10, <1>11, <1>13 DEF AccountInv

LEMMA AcceptExemptStep ==
    ASSUME IInv, NEW j \in Jobs, NEW s \in Submissions, AcceptExempt(j, s)
    PROVE  AccountInv' /\ JobsInv'
  <1>1. /\ JobsInv'
        /\ \A x \in Kinds : Cardinality(Holders(x)') = Cardinality(Holders(x)) + 0
    BY NewJob DEF AcceptExempt, JobsInv
  <1>2. \A x \in Kinds : Cardinality(Holders(x)') = Cardinality(Holders(x))
    BY <1>1, Finite
  <1>3. balance' = balance /\ ledger' = ledger
    BY DEF AcceptExempt
  <1>4. Held'
    BY <1>2, <1>3 DEF IInv, Held
  <1> QED BY <1>1, <1>3, <1>4 DEF AccountInv, IInv, GiftsOnce

LEMMA EndStep ==
    ASSUME IInv, NEW j \in Jobs, Succeed(j) \/ Fail(j)
    PROVE  AccountInv' /\ JobsInv'
  <1>t. /\ job \in [Jobs -> Job] /\ Account(balance, ledger) /\ Held
        /\ ledger["free"].expire = 0 /\ GiftsOnce
        /\ job[j].status = "active" /\ job[j] \in Job
    BY DEF IInv, TypeOK, Succeed, Fail
  <1> DEFINE k == job[j].kind
  <1>1. CASE job[j].charge = "reserved"
    <2>1. PICK new \in Job :
             /\ job' = [job EXCEPT ![j] = new]
             /\ new.submission = job[j].submission /\ new.status \in {"succeeded", "failed"}
             /\ new.recent = job[j].recent /\ new.kind = job[j].kind
             /\ new.charge \in {"consumed", "released"}
      <3>1. CASE Succeed(j)
        <4> DEFINE n == [job[j] EXCEPT !.status = "succeeded", !.charge = "consumed"]
        <4>1. /\ n \in Job /\ n.submission = job[j].submission /\ n.status = "succeeded"
              /\ n.recent = job[j].recent /\ n.kind = job[j].kind /\ n.charge = "consumed"
          BY <1>t DEF Job
        <4>2. job' = [job EXCEPT ![j] = n]
          BY <3>1, <1>1 DEF Succeed
        <4> QED BY <4>1, <4>2
      <3>2. CASE Fail(j)
        <4> DEFINE n == [job[j] EXCEPT !.status = "failed", !.charge = "released"]
        <4>1. /\ n \in Job /\ n.submission = job[j].submission /\ n.status = "failed"
              /\ n.recent = job[j].recent /\ n.kind = job[j].kind /\ n.charge = "released"
          BY <1>t DEF Job
        <4>2. job' = [job EXCEPT ![j] = n]
          BY <3>2, <1>1 DEF Fail
        <4> QED BY <4>1, <4>2
      <3> QED BY <3>1, <3>2
    <2>2. /\ JobsInv'
          /\ \A x \in Kinds : Cardinality(Holders(x)') = Cardinality(Holders(x))
                - (IF x = k THEN 1 ELSE 0)
      BY <1>t, <1>1, <2>1, OldJob DEF JobsInv
    <2>3. k \in Kinds /\ balance[k].reserved > 0 /\ Explained(balance[k], ledger[k])
      BY <1>t, <1>1, HeldIsReserved DEF Account
    <2>4. \E b, e :
             /\ balance' = [balance EXCEPT ![k] = b] /\ ledger' = [ledger EXCEPT ![k] = e]
             /\ Explained(b, e)
             /\ b.reserved = balance[k].reserved - 1 /\ b.granted = balance[k].granted
             /\ e.expire = ledger[k].expire
      <3>0. balance[k] \in Balance /\ ledger[k] \in Entries /\ balance[k].reserved - 1 \in Nat
            /\ balance[k].consumed + 1 \in Nat
        BY <2>3 DEF Explained, Balance
      <3>1. CASE Succeed(j)
        <4> DEFINE b == [balance[k] EXCEPT !.reserved = balance[k].reserved - 1,
                                           !.consumed = balance[k].consumed + 1]
                   e == [ledger[k] EXCEPT !.consume = ledger[k].consume + 1]
        <4>1. Explained(b, e)
          BY <2>3, Changes
        <4>2. balance' = [balance EXCEPT ![k] = b] /\ ledger' = [ledger EXCEPT ![k] = e]
          BY <1>1, <1>t, <2>3, <3>1 DEF Succeed, Account
        <4>3. b.reserved = balance[k].reserved - 1 /\ b.granted = balance[k].granted
              /\ e.expire = ledger[k].expire
          BY <3>0 DEF Balance, Entries
        <4> HIDE DEF b, e
        <4> QED BY <4>1, <4>2, <4>3
      <3>2. CASE Fail(j)
        <4> DEFINE b == [balance[k] EXCEPT !.reserved = balance[k].reserved - 1]
                   e == [ledger[k] EXCEPT !.release = ledger[k].release + 1]
        <4>1. Explained(b, e)
          BY <2>3, Changes
        <4>2. balance' = [balance EXCEPT ![k] = b] /\ ledger' = [ledger EXCEPT ![k] = e]
          BY <1>1, <1>t, <2>3, <3>2 DEF Fail, Account
        <4>3. b.reserved = balance[k].reserved - 1 /\ b.granted = balance[k].granted
              /\ e.expire = ledger[k].expire
          BY <3>0 DEF Balance, Entries
        <4> HIDE DEF b, e
        <4> QED BY <4>1, <4>2, <4>3
      <3> QED BY <3>1, <3>2
    <2>5. PICK b, e :
             /\ balance' = [balance EXCEPT ![k] = b] /\ ledger' = [ledger EXCEPT ![k] = e]
             /\ Explained(b, e)
             /\ b.reserved = balance[k].reserved - 1 /\ b.granted = balance[k].granted
             /\ e.expire = ledger[k].expire
      BY <2>4
    <2>6. Account(balance', ledger')
      BY <1>t, <2>3, <2>5, AccountUpdate
    <2>7. /\ \A x \in Kinds : x # k => balance'[x] = balance[x] /\ ledger'[x] = ledger[x]
          /\ balance'[k] = b /\ ledger'[k] = e
      BY <1>t, <2>3, <2>5 DEF Account
    <2>8. GiftsOnce' /\ ledger'["free"].expire = 0
      <3>1. "free" \in Kinds /\ "bonus" \in Kinds
        BY DEF Kinds
      <3>2. \A x \in Kinds : balance'[x].granted = balance[x].granted
                             /\ ledger'[x].expire = ledger[x].expire
        BY <2>5, <2>7
      <3> QED BY <1>t, <3>1, <3>2 DEF GiftsOnce
    <2>9. ASSUME NEW x \in Kinds
          PROVE  balance'[x].reserved = Cardinality(Holders(x)')
      <3>1. balance[x].reserved = Cardinality(Holders(x)) /\ Cardinality(Holders(x)) \in Nat
        BY <1>t, Finite DEF Held
      <3> QED BY <2>2, <2>5, <2>7, <3>1
    <2>10. Held'
      BY <2>9 DEF Held
    <2> QED BY <2>2, <2>6, <2>8, <2>10 DEF AccountInv
  <1>2. CASE job[j].charge # "reserved"
    <2>1. PICK new \in Job :
             /\ job' = [job EXCEPT ![j] = new]
             /\ new.submission = job[j].submission /\ new.status \in {"succeeded", "failed"}
             /\ new.recent = job[j].recent /\ new.kind = job[j].kind
             /\ new.charge = job[j].charge
      <3>1. PICK end \in {"succeeded", "failed"} :
               job' = [job EXCEPT ![j] = [job[j] EXCEPT !.status = end]]
        BY <1>2 DEF Succeed, Fail
      <3> DEFINE n == [job[j] EXCEPT !.status = end]
      <3>2. /\ n \in Job /\ n.submission = job[j].submission /\ n.status = end
            /\ n.recent = job[j].recent /\ n.kind = job[j].kind /\ n.charge = job[j].charge
        BY <1>t DEF Job
      <3> QED BY <3>1, <3>2
    <2>2. /\ JobsInv'
          /\ \A x \in Kinds : Cardinality(Holders(x)') = Cardinality(Holders(x)) - 0
      BY <1>t, <1>2, <2>1, OldJob DEF JobsInv
    <2>3. \A x \in Kinds : Cardinality(Holders(x)') = Cardinality(Holders(x))
      BY <2>2, Finite
    <2>4. balance' = balance /\ ledger' = ledger
      BY <1>2 DEF Succeed, Fail
    <2>5. Held'
      BY <1>t, <2>3, <2>4 DEF Held
    <2> QED BY <1>t, <2>2, <2>4, <2>5 DEF AccountInv, GiftsOnce
  <1> QED BY <1>1, <1>2

LEMMA LeaveStep ==
    ASSUME IInv, NEW j \in Jobs, LeaveWindow(j)
    PROVE  AccountInv' /\ JobsInv'
  <1> DEFINE n == [job[j] EXCEPT !.recent = FALSE]
  <1>t. job \in [Jobs -> Job] /\ job[j] \in Job /\ JobInv
    BY DEF IInv, TypeOK
  <1>1. /\ n \in Job /\ n.submission = job[j].submission /\ n.status = job[j].status
        /\ ~n.recent /\ n.kind = job[j].kind /\ n.charge = job[j].charge
    BY <1>t DEF Job
  <1>2. job' = [job EXCEPT ![j] = n] /\ job[j].status # "none"
    BY <1>t DEF LeaveWindow, JobInv
  <1>3. /\ JobsInv'
        /\ \A x \in Kinds : Cardinality(Holders(x)') = Cardinality(Holders(x)) - 0
    <2>1. n.charge = "reserved" => n.status = "active" /\ job[j].charge = "reserved"
      BY <1>t, <1>1 DEF JobInv
    <2> HIDE DEF n
    <2> QED BY <1>1, <1>2, <2>1, OldJob DEF JobsInv
  <1>4. \A x \in Kinds : Cardinality(Holders(x)') = Cardinality(Holders(x))
    BY <1>3, Finite
  <1>5. balance' = balance /\ ledger' = ledger
    BY DEF LeaveWindow
  <1>6. Held'
    BY <1>4, <1>5 DEF IInv, Held
  <1> QED BY <1>3, <1>5, <1>6 DEF AccountInv, IInv, GiftsOnce

LEMMA GrantStep ==
    ASSUME IInv, BuyIntro \/ BuyPackage \/ Subscribe
    PROVE  AccountInv' /\ JobsInv'
  <1>t. /\ Account(balance, ledger) /\ Held /\ ledger["free"].expire = 0 /\ GiftsOnce
        /\ Quota \in Nat
    BY ConstantsAssumption DEF IInv, ConstantsAssumption
  <1>1. job' = job
    BY DEF BuyIntro, BuyPackage, Subscribe
  <1>2. PICK k \in {"intro", "package", "monthly"}, units \in Nat, bonus \in BOOLEAN :
           Grant(k, units, bonus) /\ (bonus => Bonus)
    <2>1. CASE BuyIntro
      BY <2>1 DEF BuyIntro
    <2>2. Bonus \in BOOLEAN
      BY DEF Bonus
    <2>3. CASE BuyPackage
      BY <1>t, <2>2, <2>3 DEF BuyPackage
    <2>4. CASE Subscribe
      BY <1>t, <2>2, <2>4 DEF Subscribe
    <2> QED BY <2>1, <2>3, <2>4
  <1>3. /\ Account(balance', ledger')
        /\ \A x \in Kinds : balance'[x].reserved = balance[x].reserved
        /\ GiftsOnce'
    BY <1>t, <1>2, Granted
  <1>4. ledger'["free"].expire = 0
    BY <1>t, <1>2 DEF Grant, Kinds
  <1>5. Held'
    BY <1>t, <1>1, <1>3, SameJobs DEF Held
  <1> QED BY <1>1, <1>3, <1>4, <1>5, SameJobs DEF AccountInv

LEMMA RenewStep ==
    ASSUME IInv, Renew
    PROVE  AccountInv' /\ JobsInv'
  <1>t. /\ Account(balance, ledger) /\ Held /\ ledger["free"].expire = 0 /\ GiftsOnce
        /\ Quota \in Nat
    BY ConstantsAssumption DEF IInv, ConstantsAssumption
  <1> DEFINE k == "monthly"
             b == [balance[k] EXCEPT !.granted = balance[k].reserved + balance[k].consumed + Quota]
             e == [ledger[k] EXCEPT !.expire = ledger[k].expire + Available(balance[k]),
                                    !.grant = ledger[k].grant + Quota]
  <1>0. k \in Kinds /\ "free" \in Kinds /\ "bonus" \in Kinds /\ k # "free" /\ k # "bonus"
    BY DEF Kinds
  <1>1. Explained(balance[k], ledger[k])
    BY <1>t, <1>0 DEF Account
  <1>2. Explained(b, e)
    BY <1>t, <1>1, Changes
  <1>3. balance' = [balance EXCEPT ![k] = b] /\ ledger' = [ledger EXCEPT ![k] = e] /\ job' = job
    BY <1>t, <1>0 DEF Renew, Account
  <1>4. b.reserved = balance[k].reserved
    BY <1>1 DEF Explained, Balance
  <1> HIDE DEF b, e
  <1>5. Account(balance', ledger')
    BY <1>t, <1>0, <1>2, <1>3, AccountUpdate
  <1>6. /\ \A x \in Kinds : x # k => balance'[x] = balance[x] /\ ledger'[x] = ledger[x]
        /\ balance'[k] = b
    BY <1>t, <1>0, <1>3 DEF Account
  <1>7. GiftsOnce' /\ ledger'["free"].expire = 0
    BY <1>t, <1>0, <1>6 DEF GiftsOnce
  <1>8. \A x \in Kinds : balance'[x].reserved = balance[x].reserved
    BY <1>4, <1>6
  <1>9. Held'
    BY <1>t, <1>3, <1>8, SameJobs DEF Held
  <1> QED BY <1>3, <1>5, <1>7, <1>9, SameJobs DEF AccountInv

THEOREM Invariance == Spec => []IInv
  <1>1. IInv /\ [Next]_vars => IInv'
    <2> SUFFICES ASSUME IInv, [Next]_vars PROVE IInv'
      OBVIOUS
    <2>0. (AccountInv' /\ JobsInv' /\ UserInv') => IInv'
      BY DEF IInv, AccountInv, JobsInv, UserInv, TypeOK, Account
    <2>1. CASE UNCHANGED <<job, balance, ledger>>
      <3>1. JobsInv' /\ Held'
        BY <2>1, SameJobs DEF IInv, Held
      <3>2. AccountInv'
        BY <2>1, <3>1 DEF IInv, AccountInv, GiftsOnce
      <3>3. UserInv'
        BY UserStep, InvParts DEF UserInv, vars
      <3> QED BY <2>0, <3>1, <3>2, <3>3
    <2>2. CASE Next
      <3>1. (AccountInv' /\ JobsInv') \/ UNCHANGED <<job, balance, ledger>>
        BY <2>2, AcceptStep, AcceptExemptStep, EndStep, LeaveStep, GrantStep, RenewStep
        DEF Next, EndPlan, SendPhoto, PeriodEnds
      <3> QED BY <2>0, <2>1, <2>2, <3>1, UserStep
    <2>3. CASE UNCHANGED vars
      BY <2>1, <2>3 DEF vars
    <2> QED BY <2>2, <2>3
  <1> QED BY <1>1, InitInv, PTL DEF Spec

-----------------------------------------------------------------------------
(* The theorems.                                                             *)

(* Every reachable state has the declared types.                             *)
THEOREM TypeCorrect == Spec => []TypeOK
  BY Invariance, PTL DEF IInv

(* The ledger accounts for every unit of every balance.                      *)
THEOREM LedgerExplains == Spec => []LedgerExplainsBalances
  <1>1. IInv => LedgerExplainsBalances
    BY DEF IInv, Account, Explained, LedgerExplainsBalances
  <1> QED BY <1>1, Invariance, PTL

(* What is reserved is what the active jobs hold.                            *)
THEOREM Backed == Spec => []ReservationsBacked
  <1>1. IInv => ReservationsBacked
    BY DEF IInv, Held, Holders, JobInv, Active, ReservationsBacked
  <1> QED BY <1>1, Invariance, PTL

(* The CHECK counts_within_grant never fires.                                *)
THEOREM GrantRespected == Spec => []WithinGrant
  <1>1. IInv => WithinGrant
    BY DEF IInv, Account, Explained, WithinGrant
  <1> QED BY <1>1, Invariance, PTL

(* Both limits of the acceptance hold.                                       *)
THEOREM WithinLimits == Spec => []LimitsRespected
  BY Invariance, PTL DEF IInv

(* However often a submission is retried, it is one job.                      *)
THEOREM SubmittedOnce == Spec => []OneJobPerSubmission
  BY Invariance, PTL DEF IInv

(* The free unit and the bonus are given once.                               *)
THEOREM GiftedOnce == Spec => []GiftsOnce
  BY Invariance, PTL DEF IInv

-----------------------------------------------------------------------------
(* The old quota and the promise of Allowance.                               *)

(* A job not in use costs nothing, and nothing monthly is granted before the *)
(* subscription.                                                             *)
WalletInv ==
    /\ \A j \in Jobs : job[j].status = "none" => job[j].charge = "none"
    /\ plan.status = "none" => balance["monthly"].granted = 0
    /\ OldQuotaIsBounded

(* What may be taken of each kind, by the fields of its row: the free unit    *)
(* counts before its row is opened.                                          *)
LEMMA LeftOf ==
    ASSUME balance \in [Kinds -> Balance], NEW k \in Kinds
    PROVE  Available(Opened[k]) =
              (IF k = "free" /\ balance[k].granted = 0 THEN 1 ELSE balance[k].granted)
                 - balance[k].reserved - balance[k].consumed
  <1>1. "free" \in Kinds BY DEF Kinds
  <1> QED BY <1>1 DEF Opened, Unopened, Available, Balance

LEMMA LeftOfNext ==
    ASSUME balance' \in [Kinds -> Balance], NEW k \in Kinds
    PROVE  Available(Opened[k])' =
              (IF k = "free" /\ balance'[k].granted = 0 THEN 1 ELSE balance'[k].granted)
                 - balance'[k].reserved - balance'[k].consumed
  <1>1. "free" \in Kinds BY DEF Kinds
  <1> QED BY <1>1 DEF Opened, Unopened, Available, Balance

(* The numbers of a balance.                                                 *)
LEMMA Numbers ==
    ASSUME IInv, NEW k \in Kinds
    PROVE  /\ balance[k] \in Balance
           /\ balance[k].granted \in Nat
           /\ balance[k].reserved \in Nat
           /\ balance[k].consumed \in Nat
           /\ balance[k].reserved + balance[k].consumed <= balance[k].granted
  BY DEF IInv, Account, Explained, Balance

(* No more is reserved of a kind than jobs are active.                       *)
LEMMA ReservedByActive ==
    ASSUME IInv, NEW k \in Kinds
    PROVE  balance[k].reserved <= MaxActive
  <1>1. Holders(k) \subseteq Active BY DEF Holders
  <1>2. IsFiniteSet(Active) /\ Cardinality(Active) \in Nat /\ Cardinality(Holders(k)) \in Nat
    BY Finite
  <1>3. Cardinality(Holders(k)) <= Cardinality(Active) BY <1>1, <1>2, FS_Subset
  <1>4. MaxActive \in Nat BY ConstantsAssumption DEF ConstantsAssumption
  <1>5. balance[k].reserved = Cardinality(Holders(k)) /\ Cardinality(Active) <= MaxActive
    BY DEF IInv, Held, LimitsRespected
  <1> QED BY <1>2, <1>3, <1>4, <1>5

(* An acceptance reserves a unit of the opened account.                      *)
LEMMA AcceptEffect ==
    ASSUME IInv, NEW j \in Jobs, NEW s \in Submissions, NEW k \in Kinds,
           Selected(k), balance' = [Opened EXCEPT ![k].reserved = @ + 1]
    PROVE  \A x \in Kinds :
              /\ balance'[x].granted =
                    IF x = "free" /\ balance[x].granted = 0 THEN 1 ELSE balance[x].granted
              /\ balance'[x].reserved = balance[x].reserved + (IF x = k THEN 1 ELSE 0)
              /\ balance'[x].consumed = balance[x].consumed
  <1>1. balance \in [Kinds -> Balance] BY DEF IInv, TypeOK
  <1>2. "free" \in Kinds BY DEF Kinds
  <1>3. /\ Opened \in [Kinds -> Balance]
        /\ \A x \in Kinds :
              /\ Opened[x].granted =
                    IF x = "free" /\ balance[x].granted = 0 THEN 1 ELSE balance[x].granted
              /\ Opened[x].reserved = balance[x].reserved
              /\ Opened[x].consumed = balance[x].consumed
    BY <1>1, <1>2 DEF Opened, Unopened, Balance
  <1>4. balance' = [Opened EXCEPT ![k] = [Opened[k] EXCEPT !.reserved = Opened[k].reserved + 1]]
    BY <1>3
  <1>5. LET b == [Opened[k] EXCEPT !.reserved = Opened[k].reserved + 1] IN
           /\ b.granted = Opened[k].granted
           /\ b.reserved = Opened[k].reserved + 1
           /\ b.consumed = Opened[k].consumed
    BY <1>3 DEF Balance
  <1>6. ASSUME NEW x \in Kinds
        PROVE  /\ balance'[x].granted = Opened[x].granted
               /\ balance'[x].reserved = Opened[x].reserved + (IF x = k THEN 1 ELSE 0)
               /\ balance'[x].consumed = Opened[x].consumed
    <2>1. CASE x = k BY <1>3, <1>4, <1>5, <2>1
    <2>2. CASE x # k
      <3>1. balance'[x] = Opened[x] BY <1>3, <1>4, <2>2
      <3>2. Opened[x].reserved \in Nat BY <1>3 DEF Balance
      <3> QED BY <2>2, <3>1, <3>2
    <2> QED BY <2>1, <2>2
  <1> QED BY <1>3, <1>6

(* The end of a job that held a unit: it is consumed, or available again.     *)
LEMMA EndEffect ==
    ASSUME IInv, NEW j \in Jobs, job[j].charge = "reserved", Succeed(j) \/ Fail(j)
    PROVE  \A x \in Kinds :
              /\ balance'[x].granted = balance[x].granted
              /\ balance'[x].reserved =
                    balance[x].reserved - (IF x = job[j].kind THEN 1 ELSE 0)
              /\ balance'[x].consumed =
                    balance[x].consumed + (IF x = job[j].kind /\ Succeed(j) THEN 1 ELSE 0)
              /\ Succeed(j) <=> job'[j].charge = "consumed"
  <1> DEFINE k == job[j].kind
  <1>1. balance \in [Kinds -> Balance] /\ job \in [Jobs -> Job] BY DEF IInv, TypeOK
  <1>2. k \in Kinds BY HeldIsReserved
  <1>3. \A x \in Kinds : balance[x].reserved \in Nat /\ balance[x].consumed \in Nat
    BY Numbers
  <1>4. CASE Succeed(j)
    <2> DEFINE b == [balance[k] EXCEPT !.reserved = balance[k].reserved - 1,
                                       !.consumed = balance[k].consumed + 1]
    <2>1. balance' = [balance EXCEPT ![k].reserved = @ - 1, ![k].consumed = @ + 1]
      BY <1>4 DEF Succeed
    <2>2. balance'[k] = b /\ \A x \in Kinds \ {k} : balance'[x] = balance[x]
      BY <1>1, <1>2, <2>1
    <2>3. /\ b.granted = balance[k].granted /\ b.reserved = balance[k].reserved - 1
          /\ b.consumed = balance[k].consumed + 1
      BY <1>1, <1>2 DEF Balance
    <2>4. job'[j].charge = "consumed" BY <1>1, <1>4 DEF Succeed, Job
    <2> HIDE DEF b, k
    <2> QED BY <1>3, <1>4, <2>2, <2>3, <2>4 DEF k
  <1>5. CASE Fail(j)
    <2> DEFINE b == [balance[k] EXCEPT !.reserved = balance[k].reserved - 1]
    <2>1. balance' = [balance EXCEPT ![k].reserved = @ - 1]
      BY <1>5 DEF Fail
    <2>2. balance'[k] = b /\ \A x \in Kinds \ {k} : balance'[x] = balance[x]
      BY <1>1, <1>2, <2>1
    <2>3. /\ b.granted = balance[k].granted /\ b.reserved = balance[k].reserved - 1
          /\ b.consumed = balance[k].consumed
      BY <1>1, <1>2 DEF Balance
    <2>4. job'[j].charge = "released" BY <1>1, <1>5 DEF Fail, Job
    <2>5. ~Succeed(j)
      <3>1. Succeed(j) => job'[j].charge = "consumed" BY <1>1 DEF Succeed, Job
      <3> QED BY <2>4, <3>1
    <2> HIDE DEF b, k
    <2> QED BY <1>3, <2>2, <2>3, <2>4, <2>5 DEF k
  <1> QED BY <1>4, <1>5

(* A purchase grants its units, and perhaps the bonus.                       *)
LEMMA GrantEffect ==
    ASSUME IInv, NEW k \in Kinds \ {"bonus"}, NEW units \in Nat, NEW bonus \in BOOLEAN,
           Grant(k, units, bonus)
    PROVE  \A x \in Kinds :
              /\ balance'[x].granted = balance[x].granted + (IF x = k THEN units ELSE 0)
                                          + (IF x = "bonus" /\ bonus THEN 2 ELSE 0)
              /\ balance'[x].reserved = balance[x].reserved
              /\ balance'[x].consumed = balance[x].consumed
  <1> SUFFICES ASSUME NEW x \in Kinds
               PROVE  /\ balance'[x].granted = balance[x].granted + (IF x = k THEN units ELSE 0)
                                                  + (IF x = "bonus" /\ bonus THEN 2 ELSE 0)
                      /\ balance'[x].reserved = balance[x].reserved
                      /\ balance'[x].consumed = balance[x].consumed
    OBVIOUS
  <1>1. balance[x] \in Balance /\ balance[x].granted \in Nat BY Numbers
  <1>2. \A n \in Nat : /\ [balance[x] EXCEPT !.granted = balance[x].granted + n].granted =
                             balance[x].granted + n
                       /\ [balance[x] EXCEPT !.granted = balance[x].granted + n].reserved =
                             balance[x].reserved
                       /\ [balance[x] EXCEPT !.granted = balance[x].granted + n].consumed =
                             balance[x].consumed
    BY <1>1 DEF Balance
  <1>3. CASE x = k
    <2>1. balance'[x] = [balance[x] EXCEPT !.granted = balance[x].granted + units]
      BY <1>3 DEF Grant
    <2> QED BY <1>1, <1>2, <1>3, <2>1
  <1>4. CASE x # k /\ x = "bonus" /\ bonus
    <2>1. balance'[x] = [balance[x] EXCEPT !.granted = balance[x].granted + 2]
      BY <1>4 DEF Grant
    <2> QED BY <1>1, <1>2, <1>4, <2>1
  <1>5. CASE x # k /\ ~(x = "bonus" /\ bonus)
    <2>1. balance'[x] = balance[x] BY <1>5 DEF Grant
    <2> QED BY <1>1, <1>5, <2>1
  <1> QED BY <1>3, <1>4, <1>5

(* A renewal leaves what is reserved or consumed and the fresh quota.        *)
LEMMA RenewEffect ==
    ASSUME IInv, Renew
    PROVE  /\ balance'["monthly"].granted =
                 balance["monthly"].reserved + balance["monthly"].consumed + Quota
           /\ balance'["monthly"].reserved = balance["monthly"].reserved
           /\ balance'["monthly"].consumed = balance["monthly"].consumed
           /\ \A x \in Kinds \ {"monthly"} : balance'[x] = balance[x]
  <1>1. "monthly" \in Kinds BY DEF Kinds
  <1>2. balance["monthly"] \in Balance /\ balance \in [Kinds -> Balance]
    BY <1>1 DEF IInv, TypeOK
  <1> QED BY <1>1, <1>2 DEF Renew, Balance

(* Only what is neither acceptance nor purchase nor end of a paid job leaves  *)
(* the balances alone.                                                       *)
LEMMA OtherEffect ==
    ASSUME Next
    PROVE  \/ \E j \in Jobs, s \in Submissions : Accept(j, s)
           \/ \E j \in Jobs : job[j].charge = "reserved" /\ (Succeed(j) \/ Fail(j))
           \/ BuyIntro \/ BuyPackage \/ Subscribe \/ Renew
           \/ UNCHANGED balance
  BY DEF Next, AcceptExempt, Succeed, Fail, LeaveWindow, EndPlan, SendPhoto, PeriodEnds

(* The status of the subscription never returns to none.                     *)
LEMMA PlanStep ==
    ASSUME IInv, [Next]_vars, plan'.status = "none"
    PROVE  plan.status = "none" /\ ~Subscribe /\ ~Renew
  <1>1. plan \in [status : {"none", "active", "inactive"}, expired : BOOLEAN]
    BY DEF IInv, TypeOK
  <1>2. ~Subscribe BY DEF Subscribe
  <1>3. ~Renew BY <1>1 DEF Renew
  <1>4. CASE EndPlan BY <1>1, <1>4 DEF EndPlan
  <1>5. CASE PeriodEnds BY <1>1, <1>5 DEF PeriodEnds
  <1>6. CASE UNCHANGED plan BY <1>2, <1>3, <1>6
  <1> QED
    BY <1>2, <1>3, <1>4, <1>5, <1>6
       DEF Next, vars, Accept, AcceptExempt, Succeed, Fail, LeaveWindow, BuyIntro, BuyPackage,
           SendPhoto

(* A job that is not in use never was.                                       *)
LEMMA UnusedStep ==
    ASSUME IInv, WalletInv, [Next]_vars, NEW i \in Jobs, job'[i].status = "none"
    PROVE  job'[i].charge = "none"
  <1>1. job \in [Jobs -> Job] BY DEF IInv, TypeOK
  <1>2. ASSUME NEW j \in Jobs, NEW s \in Submissions, Accept(j, s) \/ AcceptExempt(j, s)
        PROVE  job'[i].charge = "none"
    <2>1. PICK kind, charge : Created(j, s, kind, charge) BY <1>2 DEF Accept, AcceptExempt
    <2>2. i # j BY <1>1, <2>1 DEF Created
    <2> QED BY <1>1, <2>1, <2>2 DEF Created, WalletInv
  <1>3. ASSUME NEW j \in Jobs, Succeed(j) \/ Fail(j) PROVE job'[i].charge = "none"
    <2>1. /\ job'[j].status \in {"succeeded", "failed"}
          /\ \A x \in Jobs \ {j} : job'[x] = job[x]
      BY <1>1, <1>3 DEF Succeed, Fail, Job
    <2> QED BY <2>1 DEF WalletInv
  <1>4. ASSUME NEW j \in Jobs, LeaveWindow(j) PROVE job'[i].charge = "none"
    <2>1. /\ job'[i].status = job[i].status
          /\ job'[i].charge = job[i].charge
      BY <1>1, <1>4 DEF LeaveWindow, Job
    <2> QED BY <2>1 DEF WalletInv
  <1>5. CASE UNCHANGED job BY <1>5 DEF WalletInv
  <1> QED
    BY <1>2, <1>3, <1>4, <1>5
       DEF Next, vars, BuyIntro, BuyPackage, Subscribe, Renew, EndPlan, SendPhoto, PeriodEnds

(* The bound on what a renewal carries over, and the rest of WalletInv.      *)
LEMMA WalletStep ==
    ASSUME IInv, WalletInv, [Next]_vars
    PROVE  WalletInv'
  <1>m. "monthly" \in Kinds /\ "bonus" \in Kinds BY DEF Kinds
  <1>q. Quota \in Nat /\ MaxActive \in Nat BY ConstantsAssumption DEF ConstantsAssumption
  <1> DEFINE old == balance["monthly"]
             new == balance'["monthly"]
  <1>n. /\ old.granted \in Nat /\ old.reserved \in Nat /\ old.consumed \in Nat
        /\ old.reserved + old.consumed <= old.granted
        /\ old.reserved <= MaxActive
    BY <1>m, Numbers, ReservedByActive
  <1>o. old.granted - old.consumed <= Quota + MaxActive
    <2>1. Available(old) + old.reserved <= Quota + MaxActive
      BY DEF WalletInv, OldQuotaIsBounded
    <2>2. Available(old) = old.granted - old.reserved - old.consumed BY DEF Available
    <2> HIDE DEF old
    <2> QED BY <1>n, <1>q, <2>1, <2>2
  <1>p. plan'.status = "none" => plan.status = "none" /\ ~Subscribe /\ ~Renew
    BY PlanStep
  <1>s. \/ /\ new.granted = old.granted
           /\ new.reserved \in Int
           /\ new.consumed \in Int
           /\ new.consumed >= old.consumed
        \/ /\ Subscribe
           /\ new.granted = old.granted + Quota
           /\ new.reserved = old.reserved
           /\ new.consumed = old.consumed
        \/ /\ Renew
           /\ new.granted = old.reserved + old.consumed + Quota
           /\ new.reserved = old.reserved
           /\ new.consumed = old.consumed
    <2>1. ASSUME NEW j \in Jobs, NEW s \in Submissions, Accept(j, s)
          PROVE  /\ new.granted = old.granted
                 /\ new.reserved \in Int
                 /\ new.consumed = old.consumed
      <3>1. PICK k \in Kinds : Selected(k) /\ balance' = [Opened EXCEPT ![k].reserved = @ + 1]
        BY <2>1 DEF Accept
      <3>2. /\ new.granted =
                  IF "monthly" = "free" /\ old.granted = 0 THEN 1 ELSE old.granted
            /\ new.reserved = old.reserved + (IF "monthly" = k THEN 1 ELSE 0)
            /\ new.consumed = old.consumed
        BY <1>m, <3>1, AcceptEffect
      <3> HIDE DEF old, new
      <3> QED BY <1>n, <3>2
    <2>2. ASSUME NEW j \in Jobs, job[j].charge = "reserved", Succeed(j) \/ Fail(j)
          PROVE  /\ new.granted = old.granted
                 /\ new.reserved \in Int
                 /\ new.consumed \in Int
                 /\ new.consumed >= old.consumed
      <3>1. /\ new.granted = old.granted
            /\ new.reserved = old.reserved - (IF "monthly" = job[j].kind THEN 1 ELSE 0)
            /\ new.consumed = old.consumed +
                  (IF "monthly" = job[j].kind /\ Succeed(j) THEN 1 ELSE 0)
        BY <1>m, <2>2, EndEffect
      <3> HIDE DEF old, new
      <3> QED BY <1>n, <3>1
    <2>3. CASE BuyIntro \/ BuyPackage
      <3>1. PICK k \in {"intro", "package"}, units \in Nat, bonus \in BOOLEAN :
               Grant(k, units, bonus)
        BY <1>q, <2>3 DEF BuyIntro, BuyPackage, Bonus
      <3>2. k \in Kinds \ {"bonus"} BY DEF Kinds
      <3>3. /\ new.granted = old.granted + 0 + 0
            /\ new.reserved = old.reserved
            /\ new.consumed = old.consumed
        BY <1>m, <3>1, <3>2, GrantEffect
      <3> HIDE DEF old, new
      <3> QED BY <1>n, <3>3
    <2>4. CASE Subscribe
      <3>1. PICK bonus \in BOOLEAN : Grant("monthly", Quota, bonus)
        BY <2>4 DEF Subscribe, Bonus
      <3>2. /\ new.granted = old.granted + Quota + 0
            /\ new.reserved = old.reserved
            /\ new.consumed = old.consumed
        BY <1>m, <1>q, <3>1, GrantEffect
      <3> HIDE DEF old, new
      <3> QED BY <1>n, <1>q, <2>4, <3>2
    <2>5. CASE Renew BY <2>5, RenewEffect
    <2>6. CASE UNCHANGED balance BY <1>n, <2>6
    <2>7. [Next]_vars => Next \/ UNCHANGED balance BY DEF vars
    <2> HIDE DEF old, new
    <2>8. \A j \in Jobs, s \in Submissions : Accept(j, s) =>
             /\ new.granted = old.granted
             /\ new.reserved \in Int
             /\ new.consumed \in Int
             /\ new.consumed >= old.consumed
      BY <1>n, <2>1
    <2> QED BY <2>2, <2>3, <2>4, <2>5, <2>6, <2>7, <2>8, OtherEffect
  <1>1. OldQuotaIsBounded'
    <2>1. new.granted - new.consumed <= Quota + MaxActive
      <3>1. CASE Subscribe
        <4>1. old.granted = 0 BY <3>1 DEF Subscribe, WalletInv
        <4> HIDE DEF old, new
        <4> QED BY <1>n, <1>q, <1>o, <1>s, <4>1
      <3>2. CASE ~Subscribe
        <4> HIDE DEF old, new
        <4> QED BY <1>n, <1>q, <1>o, <1>s, <3>2
      <3> QED BY <3>1, <3>2
    <2>2. new.granted \in Int /\ new.reserved \in Int /\ new.consumed \in Int
      <3> HIDE DEF old, new
      <3> QED BY <1>n, <1>q, <1>s
    <2>3. Available(new) + new.reserved = new.granted - new.consumed
      <3> HIDE DEF new
      <3> QED BY <2>2 DEF Available
    <2>4. OldQuotaIsBounded' <=> Available(new) + new.reserved <= Quota + MaxActive
      BY DEF OldQuotaIsBounded
    <2> QED BY <2>1, <2>3, <2>4
  <1>2. plan'.status = "none" => balance'["monthly"].granted = 0
    BY <1>p, <1>s DEF WalletInv
  <1>3. \A i \in Jobs : job'[i].status = "none" => job'[i].charge = "none"
    BY UnusedStep
  <1> QED BY <1>1, <1>2, <1>3 DEF WalletInv

LEMMA WalletStart == Init => WalletInv
  <1>1. Quota + MaxActive >= 0 BY ConstantsAssumption DEF ConstantsAssumption
  <1> QED BY <1>1 DEF Init, WalletInv, OldQuotaIsBounded, Available, Kinds

THEOREM WalletInvariance == Spec => []WalletInv
  <1>1. IInv /\ WalletInv /\ [Next]_vars => WalletInv' BY WalletStep
  <1> QED BY <1>1, WalletStart, Invariance, PTL DEF Spec

(* A renewal carries over at most one unit for each job that may be active.  *)
THEOREM OldQuotaBounded == Spec => []OldQuotaIsBounded
  <1>1. WalletInv => OldQuotaIsBounded BY DEF WalletInv
  <1> QED BY <1>1, WalletInvariance, PTL

-----------------------------------------------------------------------------
(* The steps of the account as steps of Allowance.                           *)

(* What is left of each kind, before and after a step.                       *)
LEMMA LeftChange ==
    ASSUME IInv, TypeOK', NEW k \in Kinds
    PROVE  /\ Available(Opened[k]) \in Nat
           /\ Available(Opened[k]) =
                 (IF k = "free" /\ balance[k].granted = 0 THEN 1 ELSE balance[k].granted)
                    - balance[k].reserved - balance[k].consumed
           /\ Available(Opened[k])' =
                 (IF k = "free" /\ balance'[k].granted = 0 THEN 1 ELSE balance'[k].granted)
                    - balance'[k].reserved - balance'[k].consumed
  <1>1. balance \in [Kinds -> Balance] /\ balance' \in [Kinds -> Balance]
    BY DEF IInv, TypeOK
  <1>2. Available(Opened[k]) =
           (IF k = "free" /\ balance[k].granted = 0 THEN 1 ELSE balance[k].granted)
              - balance[k].reserved - balance[k].consumed
    BY <1>1, LeftOf
  <1>3. /\ balance[k].granted \in Nat /\ balance[k].reserved \in Nat
        /\ balance[k].consumed \in Nat
        /\ balance[k].reserved + balance[k].consumed <= balance[k].granted
    BY Numbers
  <1> QED BY <1>1, <1>2, <1>3, LeftOfNext

(* A step that changes neither a balance nor what became of a unit is not    *)
(* seen by the allowance.                                                    *)
LEMMA NotSeen ==
    ASSUME IInv, TypeOK', UNCHANGED balance,
           \A j \in Jobs : UnitOf(job'[j]) = UnitOf(job[j])
    PROVE  UNCHANGED Wallet!vars
  <1>1. \A k \in Kinds : Available(Opened[k])' = Available(Opened[k]) BY LeftChange
  <1>2. \A j \in Jobs : UnitOf(job[j])' = UnitOf(job[j]) BY DEF UnitOf
  <1> QED BY <1>1, <1>2 DEF Wallet!vars

(* An acceptance takes a unit of the first kind that has one.                *)
LEMMA TakeSeen ==
    ASSUME IInv, WalletInv, TypeOK', NEW j \in Jobs, NEW s \in Submissions, Accept(j, s)
    PROVE  Wallet!Next
  <1>1. PICK k \in Kinds :
           /\ Selected(k)
           /\ Created(j, s, k, "reserved")
           /\ balance' = [Opened EXCEPT ![k].reserved = @ + 1]
    BY DEF Accept
  <1>2. ASSUME NEW x \in Kinds
        PROVE  Available(Opened[x])' = Available(Opened[x]) - (IF x = k THEN 1 ELSE 0)
    <2>1. /\ balance'[x].granted =
                IF x = "free" /\ balance[x].granted = 0 THEN 1 ELSE balance[x].granted
          /\ balance'[x].reserved = balance[x].reserved + (IF x = k THEN 1 ELSE 0)
          /\ balance'[x].consumed = balance[x].consumed
      BY <1>1, AcceptEffect
    <2>2. /\ balance[x].granted \in Nat /\ balance[x].reserved \in Nat
          /\ balance[x].consumed \in Nat
      BY Numbers
    <2> QED BY <2>1, <2>2, LeftChange
  <1>3. Available(Opened[k]) > 0 BY <1>1 DEF Selected, Spendable
  <1>4. UnitOf(job[j]) = "none" BY DEF Accept, WalletInv, UnitOf
  <1>5. UnitOf(job'[j]) = k /\ \A i \in Jobs \ {j} : job'[i] = job[i]
    <2>1. job \in [Jobs -> Job] BY DEF IInv, TypeOK
    <2> QED BY <1>1, <2>1 DEF Created, UnitOf
  <1>6. Wallet!First(k)
    <2>1. PICK i \in 1..Len(Priority) :
             /\ Priority[i] = k
             /\ \A h \in 1..(i - 1) : ~Spendable(Priority[h], Opened)
      BY <1>1 DEF Selected
    <2>2. ASSUME NEW h \in 1..(i - 1)
          PROVE  [x \in Kinds |-> Available(Opened[x])][Priority[h]] = 0
      <3>1. h \in 1..4 BY <2>1 DEF Priority
      <3>2. Priority[h] \in Kinds /\ Priority[h] # "monthly"
        BY <3>1 DEF Priority, Kinds
      <3>3. ~(Available(Opened[Priority[h]]) > 0)
        BY <2>1, <2>2, <3>2 DEF Spendable
      <3>4. Available(Opened[Priority[h]]) \in Nat BY <3>2, LeftChange
      <3> QED BY <3>2, <3>3, <3>4
    <2> QED BY <2>1, <2>2 DEF Wallet!First
  <1>7. [x \in Kinds |-> Available(Opened[x])]' =
           [[x \in Kinds |-> Available(Opened[x])] EXCEPT ![k] = @ - 1]
    <2>1. \A x \in Kinds : Available(Opened[x]) \in Nat BY LeftChange
    <2>2. \A x \in Kinds \ {k} : Available(Opened[x])' = Available(Opened[x])
      BY <1>2, <2>1
    <2>3. Available(Opened[k])' = Available(Opened[k]) - 1 BY <1>2
    <2> QED BY <2>2, <2>3
  <1>8. [i \in Jobs |-> UnitOf(job[i])]' = [[i \in Jobs |-> UnitOf(job[i])] EXCEPT ![j] = k]
    <2>1. \A i \in Jobs : UnitOf(job[i])' = UnitOf(job'[i]) BY DEF UnitOf
    <2> QED BY <1>5, <2>1
  <1>9. UNCHANGED (balance["bonus"].granted > 0)
    <2>1. "bonus" \in Kinds BY DEF Kinds
    <2>2. balance'["bonus"].granted =
             IF "bonus" = "free" /\ balance["bonus"].granted = 0 THEN 1
             ELSE balance["bonus"].granted
      BY <1>1, <2>1, AcceptEffect
    <2> QED BY <2>2
  <1>10. Wallet!Take(j, k)
    BY <1>3, <1>4, <1>6, <1>7, <1>8, <1>9 DEF Wallet!Take
  <1> QED BY <1>10 DEF Wallet!Next

(* The end of a job that holds a unit spends it or gives it back.            *)
LEMMA EndSeen ==
    ASSUME IInv, TypeOK', NEW j \in Jobs, job[j].charge = "reserved", Succeed(j) \/ Fail(j)
    PROVE  Wallet!Next
  <1> DEFINE k == job[j].kind
  <1>1. k \in Kinds BY HeldIsReserved
  <1>2. UnitOf(job[j]) = k BY DEF UnitOf
  <1>3. ASSUME NEW x \in Kinds
        PROVE  /\ balance'[x].granted = balance[x].granted
               /\ Available(Opened[x])' = Available(Opened[x]) +
                     (IF x = k /\ ~Succeed(j) THEN 1 ELSE 0)
    <2>1. /\ balance'[x].granted = balance[x].granted
          /\ balance'[x].reserved = balance[x].reserved - (IF x = k THEN 1 ELSE 0)
          /\ balance'[x].consumed =
                balance[x].consumed + (IF x = k /\ Succeed(j) THEN 1 ELSE 0)
      BY EndEffect
    <2>2. /\ balance[x].granted \in Nat /\ balance[x].reserved \in Nat
          /\ balance[x].consumed \in Nat
      BY Numbers
    <2> HIDE DEF k
    <2>3. CASE Succeed(j) BY <2>1, <2>2, <2>3, LeftChange
    <2>4. CASE ~Succeed(j) BY <2>1, <2>2, <2>4, LeftChange
    <2> QED BY <2>3, <2>4
  <1>4. job \in [Jobs -> Job] /\ \A i \in Jobs : UnitOf(job[i])' = UnitOf(job'[i])
    BY DEF IInv, TypeOK, UnitOf
  <1>5. UNCHANGED (balance["bonus"].granted > 0)
    <2>1. "bonus" \in Kinds BY DEF Kinds
    <2> QED BY <1>3, <2>1
  <1>6. \A x \in Kinds : Available(Opened[x]) \in Nat BY LeftChange
  <1>7. CASE Succeed(j)
    <2>1. UnitOf(job'[j]) = "spent" /\ \A i \in Jobs \ {j} : job'[i] = job[i]
      BY <1>4, <1>7 DEF Succeed, Job, UnitOf
    <2>2. UNCHANGED [x \in Kinds |-> Available(Opened[x])]
      BY <1>3, <1>6, <1>7
    <2>3. [i \in Jobs |-> UnitOf(job[i])]' =
             [[i \in Jobs |-> UnitOf(job[i])] EXCEPT ![j] = "spent"]
      BY <1>4, <2>1
    <2>4. Wallet!Spend(j, k) BY <1>2, <1>5, <2>2, <2>3 DEF Wallet!Spend
    <2> QED BY <1>1, <2>4 DEF Wallet!Next
  <1>8. CASE Fail(j) /\ ~Succeed(j)
    <2>1. UnitOf(job'[j]) = "returned" /\ \A i \in Jobs \ {j} : job'[i] = job[i]
      BY <1>4, <1>8 DEF Fail, Job, UnitOf
    <2>2. [x \in Kinds |-> Available(Opened[x])]' =
             [[x \in Kinds |-> Available(Opened[x])] EXCEPT ![k] = @ + 1]
      BY <1>1, <1>3, <1>6, <1>8
    <2>3. [i \in Jobs |-> UnitOf(job[i])]' =
             [[i \in Jobs |-> UnitOf(job[i])] EXCEPT ![j] = "returned"]
      BY <1>4, <2>1
    <2>4. Wallet!GiveBack(j, k) BY <1>2, <1>5, <2>2, <2>3 DEF Wallet!GiveBack
    <2> QED BY <1>1, <2>4 DEF Wallet!Next
  <1> QED BY <1>7, <1>8

(* A purchase is a credit, with the bonus if there was none.                 *)
LEMMA CreditSeen ==
    ASSUME IInv, TypeOK', NEW k \in {"intro", "package", "monthly"}, NEW units \in Nat,
           NEW bonus \in BOOLEAN, Grant(k, units, bonus), UNCHANGED job
    PROVE  Wallet!Credit(k, units, bonus)
  <1>1. k \in Kinds \ {"bonus"} /\ k # "free" BY DEF Kinds
  <1>2. ASSUME NEW x \in Kinds
        PROVE  Available(Opened[x])' = Available(Opened[x]) + (IF x = k THEN units ELSE 0)
                                          + (IF x = "bonus" /\ bonus THEN 2 ELSE 0)
    <2>1. /\ balance'[x].granted = balance[x].granted + (IF x = k THEN units ELSE 0)
                                      + (IF x = "bonus" /\ bonus THEN 2 ELSE 0)
          /\ balance'[x].reserved = balance[x].reserved
          /\ balance'[x].consumed = balance[x].consumed
      BY <1>1, GrantEffect
    <2>2. /\ balance[x].granted \in Nat /\ balance[x].reserved \in Nat
          /\ balance[x].consumed \in Nat
      BY Numbers
    <2>3. CASE x = "free"
      <3>1. x # k /\ x # "bonus" BY <1>1, <2>3
      <3>2. balance'[x].granted = balance[x].granted BY <2>1, <2>2, <3>1
      <3> QED BY <2>1, <2>2, <3>1, <3>2, LeftChange
    <2>4. CASE x # "free"
      BY <2>1, <2>2, <2>4, LeftChange
    <2> QED BY <2>3, <2>4
  <1>3. UNCHANGED [j \in Jobs |-> UnitOf(job[j])] BY DEF UnitOf
  <1> QED BY <1>2, <1>3 DEF Wallet!Credit

(* Buying, subscribing and renewing.                                         *)
LEMMA PurchaseSeen ==
    ASSUME IInv, TypeOK', BuyIntro \/ BuyPackage \/ Subscribe \/ Renew
    PROVE  Wallet!Next
  <1>b. "bonus" \in Kinds /\ balance["bonus"].granted \in Nat
    <2>1. "bonus" \in Kinds BY DEF Kinds
    <2> QED BY <2>1, Numbers
  <1>q. Quota \in Nat BY ConstantsAssumption DEF ConstantsAssumption
  <1>g. Bonus \in BOOLEAN /\ (Bonus <=> ~(balance["bonus"].granted > 0))
    BY <1>b DEF Bonus
  <1>1. ASSUME NEW k \in {"package", "monthly"}, Grant(k, Quota, Bonus), UNCHANGED job
        PROVE  Wallet!Buy(k)
    <2>1. Wallet!Credit(k, Quota, Bonus) BY <1>g, <1>q, <1>1, CreditSeen
    <2>2. balance'["bonus"].granted > 0
      <3>1. balance'["bonus"].granted =
               balance["bonus"].granted + (IF "bonus" = k THEN Quota ELSE 0)
                  + (IF "bonus" = "bonus" /\ Bonus THEN 2 ELSE 0)
        BY <1>b, <1>g, <1>q, <1>1, GrantEffect DEF Kinds
      <3> QED BY <1>b, <1>g, <3>1
    <2>3. Wallet!Credit(k, Quota, ~(balance["bonus"].granted > 0))
      BY <1>g, <2>1, Zenon DEF Wallet!Credit
    <2> QED BY <2>2, <2>3 DEF Wallet!Buy
  <1>2. CASE BuyIntro
    <2>1. Wallet!Credit("intro", 1, FALSE) BY <1>2, CreditSeen DEF BuyIntro
    <2>2. balance'["bonus"].granted = balance["bonus"].granted
      <3>1. balance'["bonus"].granted =
               balance["bonus"].granted + (IF "bonus" = "intro" THEN 1 ELSE 0)
                  + (IF "bonus" = "bonus" /\ FALSE THEN 2 ELSE 0)
        BY <1>b, <1>2, GrantEffect DEF Kinds, BuyIntro
      <3> QED BY <1>b, <3>1
    <2>3. Wallet!BuyIntro BY <2>1, <2>2 DEF Wallet!BuyIntro
    <2> QED BY <2>3 DEF Wallet!Next
  <1>3. CASE BuyPackage
    <2>1. Wallet!Buy("package") BY <1>1, <1>3 DEF BuyPackage
    <2> QED BY <2>1 DEF Wallet!Next
  <1>4. CASE Subscribe
    <2>1. Wallet!Buy("monthly") BY <1>1, <1>4 DEF Subscribe
    <2> QED BY <2>1 DEF Wallet!Next
  <1>5. CASE Renew
    <2>1. /\ balance'["monthly"].granted =
                balance["monthly"].reserved + balance["monthly"].consumed + Quota
          /\ balance'["monthly"].reserved = balance["monthly"].reserved
          /\ balance'["monthly"].consumed = balance["monthly"].consumed
          /\ \A x \in Kinds \ {"monthly"} : balance'[x] = balance[x]
      BY <1>5, RenewEffect
    <2>2. "monthly" \in Kinds BY DEF Kinds
    <2>3. Available(Opened["monthly"])' = Quota
      <3>1. balance["monthly"].reserved \in Nat /\ balance["monthly"].consumed \in Nat
        BY <2>2, Numbers
      <3> QED BY <1>q, <2>1, <2>2, <3>1, LeftChange
    <2>4. \A x \in Kinds \ {"monthly"} : Available(Opened[x])' = Available(Opened[x])
      BY <2>1, LeftChange
    <2>5. [x \in Kinds |-> Available(Opened[x])]' =
             [[x \in Kinds |-> Available(Opened[x])] EXCEPT !["monthly"] = Quota]
      BY <2>2, <2>3, <2>4
    <2>6. UNCHANGED [j \in Jobs |-> UnitOf(job[j])] BY <1>5 DEF Renew, UnitOf
    <2>7. UNCHANGED (balance["bonus"].granted > 0) BY <1>b, <2>1
    <2>8. Wallet!Renew BY <2>5, <2>6, <2>7 DEF Wallet!Renew
    <2> QED BY <2>8 DEF Wallet!Next
  <1> QED BY <1>2, <1>3, <1>4, <1>5

LEMMA AllowanceInit == Init => Wallet!Init
  <1> SUFFICES ASSUME Init PROVE Wallet!Init
    OBVIOUS
  <1>1. balance \in [Kinds -> Balance] BY DEF Init, Balance
  <1>2. ASSUME NEW k \in Kinds
        PROVE  Available(Opened[k]) = IF k = "free" THEN 1 ELSE 0
    <2>1. balance[k] = [granted |-> 0, reserved |-> 0, consumed |-> 0] BY DEF Init
    <2> QED BY <1>1, <2>1, LeftOf
  <1>3. \A j \in Jobs : UnitOf(job[j]) = "none" BY DEF Init, UnitOf
  <1>4. (balance["bonus"].granted > 0) = FALSE BY DEF Init, Kinds
  <1> QED BY <1>2, <1>3, <1>4 DEF Wallet!Init

LEMMA AllowanceStep ==
    ASSUME IInv, WalletInv, TypeOK', [Next]_vars
    PROVE  [Wallet!Next]_(Wallet!vars)
  <1>1. ASSUME NEW j \in Jobs, NEW s \in Submissions, AcceptExempt(j, s)
        PROVE  UNCHANGED Wallet!vars
    <2>1. job \in [Jobs -> Job] /\ Created(j, s, "none", "exempt") /\ job[j].charge = "none"
      BY <1>1 DEF IInv, TypeOK, AcceptExempt, WalletInv
    <2>2. \A i \in Jobs : UnitOf(job'[i]) = UnitOf(job[i]) BY <2>1 DEF Created, UnitOf
    <2> QED BY <1>1, <2>2, NotSeen DEF AcceptExempt
  <1>2. ASSUME NEW j \in Jobs, Succeed(j) \/ Fail(j), job[j].charge # "reserved"
        PROVE  UNCHANGED Wallet!vars
    <2>1. job \in [Jobs -> Job] BY DEF IInv, TypeOK
    <2>2. \A i \in Jobs : job'[i].charge = job[i].charge /\ job'[i].kind = job[i].kind
      BY <1>2, <2>1 DEF Succeed, Fail, Job
    <2>3. \A i \in Jobs : UnitOf(job'[i]) = UnitOf(job[i]) BY <2>2 DEF UnitOf
    <2> QED BY <1>2, <2>3, NotSeen DEF Succeed, Fail
  <1>3. ASSUME NEW j \in Jobs, LeaveWindow(j) PROVE UNCHANGED Wallet!vars
    <2>1. job \in [Jobs -> Job] BY DEF IInv, TypeOK
    <2>2. \A i \in Jobs : job'[i].charge = job[i].charge /\ job'[i].kind = job[i].kind
      BY <1>3, <2>1 DEF LeaveWindow, Job
    <2>3. \A i \in Jobs : UnitOf(job'[i]) = UnitOf(job[i]) BY <2>2 DEF UnitOf
    <2> QED BY <1>3, <2>3, NotSeen DEF LeaveWindow
  <1>4. CASE EndPlan \/ SendPhoto \/ PeriodEnds \/ UNCHANGED vars
    <2>1. UNCHANGED <<job, balance>> BY <1>4 DEF EndPlan, SendPhoto, PeriodEnds, vars
    <2> QED BY <2>1, NotSeen
  <1> QED BY <1>1, <1>2, <1>3, <1>4, TakeSeen, EndSeen, PurchaseSeen DEF Next

(* The account keeps the promise of Allowance for any jobs, limits and quota: *)
(* every unit a job takes comes from the first kind that has one, and is     *)
(* spent or given back to that kind, once.                                   *)
THEOREM KeepsAllowance == Spec => ImplementsAllowance
  <1>1. IInv /\ WalletInv /\ TypeOK' /\ [Next]_vars => [Wallet!Next]_(Wallet!vars)
    BY AllowanceStep
  <1> QED BY <1>1, AllowanceInit, WalletInvariance, Invariance, TypeCorrect, PTL
          DEF Spec, ImplementsAllowance, Wallet!Spec
===============================================================================
