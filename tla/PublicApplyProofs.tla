------------------------- MODULE PublicApplyProofs --------------------------
(***************************************************************************)
(* Proofs about public_apply, for any number of people, addresses,         *)
(* candidates, applications and requests.                                  *)
(***************************************************************************)
EXTENDS PublicApply, FiniteSetTheorems, TLAPS

(* A request works on a normalised address, and past the look-up on a      *)
(* candidate that answers to it, as long as no clerk changes or purges it. *)
JobsKnow ==
  \A t \in Tx :
    /\ pc[t] # "idle" => job[t] \in Job /\ Lower[job[t].address] = job[t].address
    /\ pc[t] \in {"check", "apply"} =>
         /\ job[t].who \in Candidate /\ row[job[t].who] # "none"
         /\ row[job[t].who] = "filed" /\ t \notin readdressed =>
              /\ email[job[t].who] # None
              /\ Lower[email[job[t].who]] = job[t].address

(* Only candidates that are on file were minted.                           *)
MintedAreFiled == \A c \in Candidate : row[c] = "none" => mintedAs[c] = None

IInv == TypeOK /\ JobsKnow /\ MintedAreFiled

-----------------------------------------------------------------------------
LEMMA FinishKeeps ==
  ASSUME IInv, NEW t \in Tx,
         NEW ans \in {"created", "not_found", "refused", "internal_error"},
         Finish(t, ans), UNCHANGED <<row, email, admits, mintedAs>>,
         applied' \in [Application -> Candidate \cup {None}]
  PROVE  IInv'
<1> USE DEF IInv
<1>1. /\ pc'[t] = "idle"
      /\ \A u \in Tx : u # t => /\ pc'[u] = pc[u] /\ job'[u] = job[u]
                                /\ u \in readdressed' <=> u \in readdressed
  BY DEF Finish, Goto, TypeOK
<1>2. TypeOK'
  BY DEF Finish, Goto, TypeOK
<1>3. JobsKnow'
  BY <1>1 DEF JobsKnow
<1>4. MintedAreFiled'
  BY DEF MintedAreFiled
<1> QED
  BY <1>2, <1>3, <1>4

LEMMA StartKeeps ==
  ASSUME IInv, NEW t \in Tx, NEW e \in Address, Start(t, e)
  PROVE  IInv'
<1> USE DEF IInv
<1>1. Norm[e] \in Address /\ Lower[Norm[e]] = Norm[e]
  BY AddressAssumption
<1>2. /\ pc'[t] = "lookup" /\ job'[t] \in Job /\ job'[t].address = Norm[e]
      /\ \A u \in Tx : u # t => pc'[u] = pc[u] /\ job'[u] = job[u]
      /\ UNCHANGED <<row, email, applied, admits, mintedAs, readdressed>>
  BY <1>1 DEF Start, Goto, TypeOK, Job, rows, history
<1>3. TypeOK'
  <2>1. pc' \in [Tx -> {"idle", "lookup", "mint", "check", "apply"}]
    BY DEF Start, Goto, TypeOK
  <2>2. job' \in [Tx -> Job \cup {None}]
    BY <1>2 DEF Start, TypeOK
  <2> QED
    BY <1>2, <2>1, <2>2 DEF Start, TypeOK
<1>4. JobsKnow'
  BY <1>1, <1>2 DEF JobsKnow
<1>5. MintedAreFiled'
  BY <1>2 DEF MintedAreFiled
<1> QED
  BY <1>3, <1>4, <1>5

LEMMA LookUpKeeps ==
  ASSUME IInv, NEW t \in Tx, LookUp(t)
  PROVE  IInv'
<1> USE DEF IInv
<1>1. /\ pc[t] = "lookup" /\ job[t] \in Job /\ job[t].address \in Address
      /\ Lower[job[t].address] = job[t].address
      /\ UNCHANGED <<row, email, applied, admits, answer, mintedAs, readdressed>>
  BY DEF LookUp, JobsKnow, Job, rows, history
<1>2. MintedAreFiled'
  BY <1>1 DEF MintedAreFiled
<1>3. CASE Known(job[t].address) = {} /\ Goto(t, "mint") /\ UNCHANGED job
  <2>1. pc'[t] = "mint" /\ \A u \in Tx : u # t => pc'[u] = pc[u]
    BY <1>3 DEF Goto, TypeOK
  <2>2. TypeOK'
    BY <1>1, <1>3 DEF TypeOK, Goto
  <2>3. JobsKnow'
    BY <1>1, <1>3, <2>1 DEF JobsKnow
  <2> QED
    BY <1>2, <2>2, <2>3
<1>4. ASSUME NEW c \in Known(job[t].address),
             job' = [job EXCEPT ![t].who = c], Goto(t, "check")
      PROVE  IInv'
  <2>1. /\ c \in Candidate /\ row[c] = "filed"
        /\ email[c] # None /\ Lower[email[c]] = job[t].address
    BY <1>4 DEF Known
  <2>2. /\ pc'[t] = "check" /\ job'[t] \in Job
        /\ job'[t].who = c /\ job'[t].address = job[t].address
        /\ \A u \in Tx : u # t => pc'[u] = pc[u] /\ job'[u] = job[u]
    BY <1>1, <1>4, <2>1 DEF Goto, TypeOK, Job
  <2>3. TypeOK'
    <3>1. job' \in [Tx -> Job \cup {None}]
      BY <1>4, <2>2 DEF TypeOK
    <3> QED
      BY <1>1, <1>4, <3>1 DEF TypeOK, Goto
  <2>4. JobsKnow'
    BY <1>1, <2>1, <2>2 DEF JobsKnow
  <2> QED
    BY <1>2, <2>3, <2>4
<1> QED
  BY <1>3, <1>4 DEF LookUp

LEMMA MintKeeps ==
  ASSUME IInv, NEW t \in Tx, NEW c \in Candidate, Mint(t, c)
  PROVE  IInv'
<1> USE DEF IInv
<1>0. PICK addr \in Address : addr = job[t].address
  BY DEF Mint, JobsKnow, Job
<1>1. /\ pc[t] = "mint" /\ job[t] \in Job /\ job[t].address = addr
      /\ Lower[addr] = addr /\ row[c] = "none" /\ addr # None
      /\ UNCHANGED <<applied, admits, answer, readdressed>>
  BY <1>0, AddressAssumption DEF Mint, JobsKnow, Job
<1>2. /\ pc'[t] = "check" /\ job'[t] \in Job
      /\ job'[t].who = c /\ job'[t].address = addr
      /\ \A u \in Tx : u # t => pc'[u] = pc[u] /\ job'[u] = job[u]
      /\ email'[c] = addr /\ row'[c] = "filed"
      /\ \A d \in Candidate : d # c => email'[d] = email[d] /\ row'[d] = row[d]
  BY <1>1 DEF Mint, Goto, TypeOK, Job
<1>3. TypeOK'
  <2>1. job' \in [Tx -> Job \cup {None}]
    BY <1>2 DEF Mint, TypeOK
  <2>2. email' \in [Candidate -> Address \cup {None}]
    BY <1>1 DEF Mint, TypeOK
  <2>3. mintedAs' \in [Candidate -> Address \cup {None}]
    BY <1>1 DEF Mint, TypeOK
  <2> QED
    BY <1>1, <2>1, <2>2, <2>3 DEF Mint, Goto, TypeOK
<1>4. JobsKnow'
  BY <1>1, <1>2 DEF JobsKnow
<1>5. MintedAreFiled'
  BY <1>2 DEF Mint, MintedAreFiled, TypeOK
<1> QED
  BY <1>3, <1>4, <1>5

LEMMA CheckApplyKeep ==
  ASSUME IInv, NEW t \in Tx,
         Check(t) \/ Crash(t) \/ \E a \in Application : Apply(t, a)
  PROVE  IInv'
<1> USE DEF IInv
<1>1. CASE Check(t) /\ Goto(t, "apply")
  <2>1. UNCHANGED <<row, email, applied, admits, mintedAs>> /\ pc[t] = "check"
    BY <1>1 DEF Check, rows
  <2>2. job' = job /\ answer' = answer /\ readdressed' = readdressed
    BY <1>1, <2>1 DEF Check, Finish, Goto, TypeOK
  <2>3. pc'[t] = "apply" /\ \A u \in Tx : u # t => pc'[u] = pc[u]
    BY <1>1 DEF Goto, TypeOK
  <2>4. TypeOK'
    BY <1>1, <2>1, <2>2 DEF TypeOK, Goto
  <2>5. JobsKnow'
    BY <2>1, <2>2, <2>3 DEF JobsKnow
  <2>6. MintedAreFiled'
    BY <2>1 DEF MintedAreFiled
  <2> QED
    BY <2>4, <2>5, <2>6
<1>2. CASE (Check(t) /\ (Finish(t, "refused") \/ Finish(t, "not_found"))) \/ Crash(t)
  BY <1>2, FinishKeeps DEF Check, Crash, rows, TypeOK
<1>3. ASSUME NEW a \in Application, Apply(t, a)
      PROVE  IInv'
  <2>1. job[t].who \in Candidate
    BY <1>3 DEF Apply, JobsKnow
  <2> QED
    BY <1>3, <2>1, FinishKeeps DEF Apply, TypeOK
<1> QED
  BY <1>1, <1>2, <1>3 DEF Check

(* A clerk enters a candidate, under an id that no request works on.       *)
LEMMA EnterKeeps ==
  ASSUME IInv, NEW c \in Candidate, NEW e \in Address \cup {None}, Enter(c, e)
  PROVE  IInv'
<1> USE DEF IInv
<1>1. /\ row[c] = "none" /\ row'[c] = "filed"
      /\ \A d \in Candidate : d # c => row'[d] = row[d] /\ email'[d] = email[d]
      /\ UNCHANGED <<applied, admits, pc, job, answer, mintedAs, readdressed>>
  BY DEF Enter, TypeOK, history
<1>2. TypeOK'
  BY <1>1 DEF Enter, TypeOK
<1>3. JobsKnow'
  BY <1>1 DEF JobsKnow
<1>4. MintedAreFiled'
  BY <1>1 DEF MintedAreFiled
<1> QED
  BY <1>2, <1>3, <1>4

(* A clerk changes an address: the requests that work on it are marked.    *)
LEMMA EditKeeps ==
  ASSUME IInv, NEW c \in Candidate, NEW e \in Address \cup {None}, Edit(c, e)
  PROVE  IInv'
<1> USE DEF IInv
<1>1. /\ UNCHANGED <<row, applied, admits, pc, job, answer, mintedAs>>
      /\ \A d \in Candidate : d # c => email'[d] = email[d]
      /\ readdressed' = readdressed \cup WorksOn(c)
  BY DEF Edit, TypeOK
<1>2. TypeOK'
  BY <1>1 DEF Edit, TypeOK, WorksOn
<1>3. JobsKnow'
  BY <1>1 DEF JobsKnow, WorksOn
<1>4. MintedAreFiled'
  BY <1>1 DEF MintedAreFiled
<1> QED
  BY <1>2, <1>3, <1>4

LEMMA PurgeKeeps ==
  ASSUME IInv, NEW c \in Candidate, Purge(c)
  PROVE  IInv'
<1> USE DEF IInv
<1>1. /\ UNCHANGED <<applied, admits, pc, job, answer, readdressed>>
      /\ row'[c] = "purged"
      /\ \A d \in Candidate : d # c => /\ row'[d] = row[d] /\ email'[d] = email[d]
                                       /\ mintedAs'[d] = mintedAs[d]
  BY DEF Purge, TypeOK
<1>2. TypeOK'
  BY <1>1 DEF Purge, TypeOK
<1>3. JobsKnow'
  BY <1>1 DEF JobsKnow
<1>4. MintedAreFiled'
  BY <1>1 DEF MintedAreFiled
<1> QED
  BY <1>2, <1>3, <1>4

LEMMA FlipKeeps ==
  ASSUME IInv, Flip \/ UNCHANGED vars
  PROVE  IInv'
<1>1. /\ UNCHANGED <<row, email, applied, pc, job, answer, mintedAs, readdressed>>
      /\ admits' \in BOOLEAN
  BY DEF Flip, vars, rows, history, IInv, TypeOK
<1> QED
  BY <1>1 DEF IInv, TypeOK, JobsKnow, MintedAreFiled

LEMMA StepKeeps ==
  ASSUME IInv, [Next]_vars
  PROVE  IInv'
BY StartKeeps, LookUpKeeps, MintKeeps, CheckApplyKeep, EnterKeeps, EditKeeps,
   PurgeKeeps, FlipKeeps DEF Next

-----------------------------------------------------------------------------
(* The invariant holds in every reachable state.                           *)
THEOREM ApplyInvariant == Spec => []IInv
<1>1. Init => IInv
  BY DEF Init, IInv, TypeOK, JobsKnow, MintedAreFiled
<1>2. IInv /\ [Next]_vars => IInv'
  BY StepKeeps
<1> QED
  BY <1>1, <1>2, PTL DEF Spec

(* Its part about the types.                                               *)
THEOREM ApplyTypes == Spec => []TypeOK
BY ApplyInvariant, PTL DEF IInv

(* An application is never attached to somebody else's candidate.          *)
THEOREM OwnApplications == Spec => AppliedForOneself
<1>1. ASSUME IInv, [Next]_vars, NEW a \in Application, applied[a] # applied'[a]
      PROVE  \E t \in Tx, c \in Candidate :
               /\ pc[t] = "apply" /\ answer'[t] = "created"
               /\ applied'[a] = c /\ row[c] = "filed"
               /\ \/ email[c] # None /\ Lower[email[c]] = job[t].address
                  \/ t \in readdressed
  <2> USE DEF IInv
  <2>1. PICK t \in Tx : \E b \in Application : Apply(t, b)
    BY <1>1 DEF Next, Start, LookUp, Mint, Check, Crash, Enter, Edit, Purge, Flip,
                vars, rows
  <2>2. /\ pc[t] = "apply" /\ answer'[t] = "created" /\ applied'[a] = job[t].who
        /\ row[job[t].who] = "filed"
    BY <1>1, <2>1 DEF Apply, Finish, TypeOK
  <2>3. /\ job[t].who \in Candidate
        /\ t \notin readdressed =>
             email[job[t].who] # None /\ Lower[email[job[t].who]] = job[t].address
    BY <1>1, <2>2 DEF JobsKnow
  <2> QED
    BY <2>2, <2>3
<1>2. IInv /\ [Next]_vars =>
        [\A a \in Application : applied[a] # applied'[a] =>
           \E t \in Tx, c \in Candidate :
             /\ pc[t] = "apply" /\ answer'[t] = "created"
             /\ applied'[a] = c /\ row[c] = "filed"
             /\ \/ email[c] # None /\ Lower[email[c]] = job[t].address
                \/ t \in readdressed]_vars
  BY <1>1
<1> QED
  BY <1>2, ApplyInvariant, PTL DEF Spec, AppliedForOneself

-----------------------------------------------------------------------------
(* Second rows.                                                            *)

LEMMA Finite ==
  \A e \in Address :
    /\ IsFiniteSet(Minted(e)) /\ IsFiniteSet(Minters(e))
    /\ Cardinality(Minted(e)) \in Nat /\ Cardinality(Minters(e)) \in Nat
<1>1. ASSUME NEW e \in Address
      PROVE  Minted(e) \subseteq Candidate /\ Minters(e) \subseteq Tx
  BY DEF Minted, Minters
<1>2. ASSUME NEW e \in Address
      PROVE  IsFiniteSet(Minted(e)) /\ IsFiniteSet(Minters(e))
  BY <1>1, AddressAssumption, FS_Subset
<1> QED
  BY <1>2, FS_CardinalityType

(* A step mints no candidate for the address and no request joins those    *)
(* about to, or it mints one and spends one of those requests.             *)
LEMMA MintsOneByOne ==
  ASSUME IInv, [Next]_vars, NEW e \in Address, OnFile(e) # {}
  PROVE  \/ Minted(e)' \subseteq Minted(e) /\ Minters(e)' \subseteq Minters(e)
         \/ \E t \in Minters(e), c \in Candidate :
              /\ c \notin Minted(e) /\ Minted(e)' = Minted(e) \cup {c}
              /\ Minters(e)' = Minters(e) \ {t}
<1> DEFINE Quiet == Minted(e)' \subseteq Minted(e) /\ Minters(e)' \subseteq Minters(e)
<1> USE DEF IInv
<1>1. ASSUME NEW t \in Tx, NEW c \in Candidate, Mint(t, c), job[t].address = e
      PROVE  /\ t \in Minters(e) /\ c \notin Minted(e)
             /\ Minted(e)' = Minted(e) \cup {c} /\ Minters(e)' = Minters(e) \ {t}
  <2>1. /\ pc[t] = "mint" /\ mintedAs[c] = None /\ e # None
        /\ mintedAs' = [mintedAs EXCEPT ![c] = e]
    BY <1>1, AddressAssumption DEF Mint, MintedAreFiled
  <2>2. c \notin Minted(e) /\ Minted(e)' = Minted(e) \cup {c}
    BY <2>1 DEF Minted, TypeOK
  <2>3. /\ pc'[t] = "check"
        /\ \A u \in Tx : u # t => pc'[u] = pc[u] /\ job'[u] = job[u]
    BY <1>1 DEF Mint, Goto, TypeOK
  <2>4. t \in Minters(e) /\ Minters(e)' = Minters(e) \ {t}
    BY <1>1, <2>1, <2>3 DEF Minters
  <2> QED
    BY <2>2, <2>4
<1>2. ASSUME NEW t \in Tx, NEW c \in Candidate, Mint(t, c), job[t].address # e
      PROVE  Quiet
  <2>1. /\ pc'[t] = "check"
        /\ \A u \in Tx : u # t => pc'[u] = pc[u] /\ job'[u] = job[u]
    BY <1>2 DEF Mint, Goto, TypeOK
  <2>2. \A d \in Candidate : mintedAs'[d] = e => mintedAs[d] = e
    BY <1>2 DEF Mint, TypeOK
  <2> QED
    BY <2>1, <2>2 DEF Minted, Minters
<1>3. ASSUME NEW t \in Tx, LookUp(t)
      PROVE  Quiet
  <2>1. mintedAs' = mintedAs
    BY <1>3 DEF LookUp, history
  <2>2. /\ \A u \in Tx : u # t => pc'[u] = pc[u] /\ job'[u] = job[u]
        /\ pc'[t] = "mint" => job'[t] = job[t] /\ Known(job[t].address) = {}
    BY <1>3 DEF LookUp, Goto, TypeOK
  <2> QED
    BY <2>1, <2>2 DEF Minted, Minters, OnFile, Known
<1>4. ASSUME NEW t \in Tx, NEW step \in {"idle", "lookup", "apply"}, Goto(t, step),
             mintedAs' = mintedAs, \A u \in Tx : u # t => job'[u] = job[u]
      PROVE  Quiet
  <2>1. pc'[t] # "mint" /\ \A u \in Tx : u # t => pc'[u] = pc[u]
    BY <1>4 DEF Goto, TypeOK
  <2> QED
    BY <1>4, <2>1 DEF Minted, Minters
<1>5. ASSUME NEW t \in Tx,
             \/ Check(t) \/ Crash(t)
             \/ \E x \in Address : Start(t, x)
             \/ \E a \in Application : Apply(t, a)
      PROVE  Quiet
  <2>1. /\ mintedAs' = mintedAs
        /\ \E step \in {"idle", "lookup", "apply"} : Goto(t, step)
    BY <1>5 DEF Check, Crash, Start, Apply, Finish, history
  <2>2. \A u \in Tx : u # t => job'[u] = job[u]
    BY <1>5 DEF Check, Crash, Start, Apply, Finish, TypeOK
  <2> QED
    BY <1>4, <2>1, <2>2
<1>6. ASSUME \/ \E c \in Candidate, x \in Address \cup {None} : Enter(c, x) \/ Edit(c, x)
             \/ \E c \in Candidate : Purge(c)
             \/ Flip \/ UNCHANGED vars
      PROVE  Quiet
  <2>1. pc' = pc /\ job' = job
    BY <1>6 DEF Enter, Edit, Purge, Flip, vars
  <2>2. \A c \in Candidate : mintedAs'[c] = e => mintedAs[c] = e
    BY <1>6, AddressAssumption DEF Enter, Edit, Purge, Flip, vars, history, TypeOK
  <2> QED
    BY <2>1, <2>2 DEF Minted, Minters
<1> QED
  BY <1>1, <1>2, <1>3, <1>5, <1>6 DEF Next

(* While somebody is on file under an address, the candidates minted for   *)
(* it and the requests about to mint one are together no more than they    *)
(* were.                                                                   *)
THEOREM NoNewMinters == Spec => MintsNeedOverlap
<1> DEFINE Spent(e) ==
      Cardinality(Minted(e)') + Cardinality(Minters(e)')
        <= Cardinality(Minted(e)) + Cardinality(Minters(e))
<1>1. ASSUME IInv, [Next]_vars, NEW e \in Address, OnFile(e) # {}
      PROVE  Spent(e)
  <2>1. /\ IsFiniteSet(Minted(e)) /\ IsFiniteSet(Minters(e))
        /\ Cardinality(Minted(e)) \in Nat /\ Cardinality(Minters(e)) \in Nat
    BY Finite
  <2>2. CASE Minted(e)' \subseteq Minted(e) /\ Minters(e)' \subseteq Minters(e)
    <3>1. /\ Cardinality(Minted(e)') <= Cardinality(Minted(e))
          /\ Cardinality(Minters(e)') <= Cardinality(Minters(e))
          /\ IsFiniteSet(Minted(e)') /\ IsFiniteSet(Minters(e)')
      BY <2>1, <2>2, FS_Subset
    <3>2. Cardinality(Minted(e)') \in Nat /\ Cardinality(Minters(e)') \in Nat
      BY <3>1, FS_CardinalityType
    <3> QED
      BY <2>1, <3>1, <3>2
  <2>3. ASSUME NEW t \in Minters(e), NEW c \in Candidate, c \notin Minted(e),
               Minted(e)' = Minted(e) \cup {c}, Minters(e)' = Minters(e) \ {t}
        PROVE  Spent(e)
    <3>1. Cardinality(Minted(e)') = Cardinality(Minted(e)) + 1
      BY <2>1, <2>3, FS_AddElement
    <3>2. Cardinality(Minters(e)') = Cardinality(Minters(e)) - 1
      BY <2>1, <2>3, FS_RemoveElement
    <3> QED
      BY <2>1, <3>1, <3>2
  <2> QED
    BY <1>1, <2>2, <2>3, MintsOneByOne
<1>2. IInv /\ [Next]_vars => [\A e \in Address : OnFile(e) # {} => Spent(e)]_vars
  BY <1>1
<1> QED
  BY <1>2, ApplyInvariant, PTL DEF Spec, MintsNeedOverlap

-----------------------------------------------------------------------------
(* After the closing.                                                      *)

(* One step makes no application, or one application of one request that   *)
(* was let through.                                                        *)
LEMMA AppliesOneByOne ==
  ASSUME IInv, [Next]_vars
  PROVE  \/ Made' = Made
         \/ \E t \in LetThrough, a \in Application :
              /\ a \notin Made /\ Made' = Made \cup {a}
              /\ LetThrough' = LetThrough \ {t}
<1> USE DEF IInv
<1>1. ASSUME NEW t \in Tx, NEW a \in Application, Apply(t, a)
      PROVE  /\ t \in LetThrough /\ a \notin Made /\ Made' = Made \cup {a}
             /\ LetThrough' = LetThrough \ {t}
  <2>1. pc[t] = "apply" /\ job[t].who \in Candidate /\ job[t].who # None
    BY <1>1, AddressAssumption DEF Apply, JobsKnow
  <2>2. PICK c \in Candidate : c = job[t].who
    BY <2>1
  <2>3. applied[a] = None /\ applied' = [applied EXCEPT ![a] = c] /\ c # None
    BY <1>1, <2>1, <2>2 DEF Apply
  <2>4. Made' = Made \cup {a} /\ a \notin Made
    BY <2>3 DEF Made, TypeOK
  <2>5. LetThrough' = LetThrough \ {t} /\ t \in LetThrough
    BY <1>1, <2>1 DEF Apply, Finish, Goto, LetThrough, TypeOK
  <2> QED
    BY <2>4, <2>5
<1>2. (\A t \in Tx, a \in Application : ~Apply(t, a)) => applied' = applied
  BY DEF Next, Start, LookUp, Mint, Check, Crash, Enter, Edit, Purge, Flip, vars, rows
<1> QED
  BY <1>1, <1>2 DEF Made

(* At any time finitely many applications were made.                       *)
FinitelyMany == IsFiniteSet(Made)

LEMMA FinitelyMade ==
  ASSUME IInv, FinitelyMany, [Next]_vars
  PROVE  FinitelyMany'
<1> USE DEF FinitelyMany
<1>1. CASE Made' = Made
  BY <1>1
<1>2. ASSUME NEW a \in Application, a \notin Made, Made' = Made \cup {a}
      PROVE  FinitelyMany'
  BY <1>2, FS_AddElement
<1> QED
  BY <1>1, <1>2, AppliesOneByOne

(* While nobody is admitted, nobody is let through.                        *)
LEMMA ClosedLetsNobodyThrough ==
  ASSUME IInv, [Next]_vars, ~admits
  PROVE  LetThrough' \subseteq LetThrough
<1> USE DEF IInv
<1>1. ASSUME NEW t \in Tx, pc'[t] = "apply"
      PROVE  pc[t] = "apply"
  <2>1. ASSUME NEW u \in Tx, NEW step, step # "apply", pc' = [pc EXCEPT ![u] = step]
        PROVE  pc[t] = "apply"
    BY <1>1, <2>1 DEF TypeOK
  <2>2. ASSUME NEW u \in Tx, NEW e \in Address, Start(u, e)
        PROVE  pc[t] = "apply"
    BY <2>1, <2>2 DEF Start, Goto
  <2>3. ASSUME NEW u \in Tx, LookUp(u) \/ Check(u) \/ Crash(u)
        PROVE  pc[t] = "apply"
    BY <2>1, <2>3 DEF LookUp, Check, Crash, Finish, Goto
  <2>4. ASSUME NEW u \in Tx, NEW c \in Candidate, Mint(u, c)
        PROVE  pc[t] = "apply"
    BY <2>1, <2>4 DEF Mint, Goto
  <2>5. ASSUME NEW u \in Tx, NEW a \in Application, Apply(u, a)
        PROVE  pc[t] = "apply"
    BY <2>1, <2>5 DEF Apply, Finish, Goto
  <2>6. CASE \/ \E c \in Candidate, e \in Address \cup {None} : Enter(c, e) \/ Edit(c, e)
             \/ \E c \in Candidate : Purge(c)
             \/ Flip \/ UNCHANGED vars
    BY <1>1, <2>6 DEF Enter, Edit, Purge, Flip, vars
  <2> QED
    BY <2>2, <2>3, <2>4, <2>5, <2>6 DEF Next
<1> QED
  BY <1>1 DEF LetThrough

(* While the requisition admits nobody, the applications made and the      *)
(* requests let through are together no more than they were.               *)
THEOREM NobodyAfterClosing == Spec => NobodyComesAfterClosing
<1> DEFINE Conserved ==
      Cardinality(Made') + Cardinality(LetThrough')
        <= Cardinality(Made) + Cardinality(LetThrough)
<1>1. ASSUME IInv, FinitelyMany, [Next]_vars, ~admits
      PROVE  Conserved
  <2> USE DEF FinitelyMany
  <2>1. IsFiniteSet(LetThrough)
    <3>1. LetThrough \subseteq Tx
      BY DEF LetThrough
    <3> QED
      BY <3>1, AddressAssumption, FS_Subset
  <2>2. /\ Cardinality(Made) \in Nat /\ Cardinality(LetThrough) \in Nat
    BY <1>1, <2>1, FS_CardinalityType
  <2>3. CASE Made' = Made
    <3>1. LetThrough' \subseteq LetThrough
      BY <1>1, ClosedLetsNobodyThrough
    <3>2. Cardinality(LetThrough') \in Nat
          /\ Cardinality(LetThrough') <= Cardinality(LetThrough)
      BY <2>1, <3>1, FS_Subset, FS_CardinalityType
    <3> QED
      BY <2>2, <2>3, <3>2
  <2>4. ASSUME NEW t \in LetThrough, NEW a \in Application,
               a \notin Made, Made' = Made \cup {a}, LetThrough' = LetThrough \ {t}
        PROVE  Conserved
    <3>1. Cardinality(Made') = Cardinality(Made) + 1
      BY <1>1, <2>4, FS_AddElement
    <3>2. Cardinality(LetThrough') = Cardinality(LetThrough) - 1
      BY <2>1, <2>4, FS_RemoveElement
    <3> QED
      BY <2>2, <3>1, <3>2
  <2> QED
    BY <1>1, <2>3, <2>4, AppliesOneByOne
<1>2. Init => FinitelyMany
  <2>1. Init => Made = {}
    BY DEF Init, Made
  <2> QED
    BY <2>1, FS_EmptySet DEF FinitelyMany
<1>3. IInv /\ FinitelyMany /\ [Next]_vars => FinitelyMany'
  BY FinitelyMade
<1>4. IInv /\ FinitelyMany /\ [Next]_vars =>
        [~admits => Cardinality(Made') + Cardinality(LetThrough')
                      <= Cardinality(Made) + Cardinality(LetThrough)]_vars
  BY <1>1
<1> QED
  BY <1>2, <1>3, <1>4, ApplyInvariant, PTL DEF Spec, NobodyComesAfterClosing
=============================================================================
