---------------------------- MODULE AdmissionProofs ----------------------------
(***************************************************************************)
(* Theorems about Admission, for all accounts, requests and bounds.  The   *)
(* inductive invariant says what a request that has come so far must have  *)
(* met: its accounts off the blacklist, a dated message, a gamer of its    *)
(* account without a referrer, and another gamer whose code it marked.     *)
(***************************************************************************)
EXTENDS Admission, TLAPS

Past == {"admitted", "verified", "saving", "found", "referring", "marked", "done"}

\* While a request is being checked, offList holds its accounts that are off
\* the blacklist or were asked about; afterwards it holds all of them.
ChecksInv ==
  \A q \in Requests :
    /\ stage[q] = "checking" => \A a \in Concerned(q) :
         ~Blacklisted(a) \/ a \notin unvalidated[q] => a \in offList[q]
    /\ stage[q] \in Past => Concerned(q) \subseteq offList[q]

DatedInv ==
  \A q \in Requests :
    /\ stage[q] \in {"verified", "found", "referring", "marked"} =>
         q.kind = "refer" /\ q.signedAt # NaN
    /\ stage[q] = "done" /\ q.kind \in {"refer", "play", "over"} =>
         q.signedAt # NaN
    /\ stage[q] = "saving" => q.kind = "visit"

\* The gamer a request has read, and the one whose code it uses.
GamerInv ==
  \A q \in Requests :
    /\ stage[q] \in {"found", "referring", "marked"} =>
         /\ gamer[q].id \in RowsOf(q.accountId)
         /\ gamer[q].referralUserId = NoReferrer
    /\ stage[q] = "found" => referrer[q] = 0
    /\ referrer[q] # 0 =>
         /\ stage[q] \in {"referring", "marked", "done", "failed"}
         /\ q.kind = "refer" /\ q.signedAt # NaN
         /\ gamer[q].id \in gamers
         /\ gamer[q].referralUserId = NoReferrer
         /\ referrer[q] # gamer[q].id

\* Codes that are marked, and what became of the requests that marked them.
MarkedInv ==
  \A q \in Requests : stage[q] = "marked" => referralUsed[referrer[q]]
MarkerInv ==
  \A r \in Rows : referralUsed[r] =>
    \E q \in Requests : referrer[q] = r /\ stage[q] \in {"marked", "done", "failed"}
FailedInv == \A q \in Requests : stage[q] = "failed" => faults > 0
DoneInv ==
  \A q \in Requests : stage[q] = "done" /\ referrer[q] # 0 =>
    \E p \in Requests :
      /\ p.kind = "refer" /\ stage[p] = "done"
      /\ gamer[p] = gamer[q]
      /\ referralUserId[gamer[q].id] = referrer[p]
UsedInv == ReferrerMarked /\ MarkedInv /\ MarkerInv /\ FailedInv /\ DoneInv

UniqueInv ==
  \A id, other \in Ids :
    id # other /\ blacklisted[id] # NoAccount => blacklisted[other] # blacklisted[id]

AInv ==
  AdmissionTypeOK /\ ChecksInv /\ DatedInv /\ GamerInv /\ UsedInv /\ UniqueInv

USE RequestsAssumption, RowsAssumption, BoundsAssumption

-----------------------------------------------------------------------------
(* The invariant *)

LEMMA AdmissionInitInv == AdmissionInit => AInv
<1> SUFFICES ASSUME AdmissionInit PROVE AInv
  OBVIOUS
<1> USE DEF AdmissionInit
<1>1. AdmissionTypeOK
  BY DEF AdmissionTypeOK, NoGamer
<1>2. ChecksInv /\ DatedInv /\ GamerInv
  BY DEF ChecksInv, DatedInv, GamerInv, Past
<1>3. UsedInv
  BY DEF UsedInv, MarkedInv, MarkerInv, FailedInv, DoneInv,
         ReferrerMarked
<1>4. UniqueInv
  BY DEF UniqueInv
<1> QED
  BY <1>1, <1>2, <1>3, <1>4 DEF AInv

\* Steps that leave the blacklist and the checks alone.
LEMMA ChecksKept ==
  ASSUME ChecksInv, UNCHANGED <<blacklisted, unvalidated, offList>>,
         \A q \in Requests :
           \/ stage'[q] = stage[q]
           \/ stage'[q] \in {"refused", "failed"}
           \/ stage[q] \in Past /\ stage'[q] \in Past
  PROVE  ChecksInv'
BY DEF ChecksInv, Past, Blacklisted

LEMMA UniqueKept ==
  ASSUME UniqueInv, UNCHANGED blacklisted
  PROVE  UniqueInv'
BY DEF UniqueInv

LEMMA TimePassesInv == AInv /\ TimePasses => AInv'
<1> SUFFICES ASSUME AInv, TimePasses PROVE AInv'
  OBVIOUS
<1> USE DEF AInv, TimePasses, gamerVars, handlerVars, localVars
<1>1. AdmissionTypeOK'
  BY DEF AdmissionTypeOK
<1>2. ChecksInv' /\ UniqueInv'
  BY DEF ChecksInv, UniqueInv, Blacklisted
<1>3. DatedInv' /\ GamerInv'
  BY DEF DatedInv, GamerInv, RowsOf
<1>4. UsedInv'
  BY DEF UsedInv, MarkedInv, MarkerInv, FailedInv, DoneInv,
         ReferrerMarked
<1> QED
  BY <1>1, <1>2, <1>3, <1>4

LEMMA BlacklistInv ==
  ASSUME AInv, NEW id \in Ids, NEW entry \in Accounts \cup {NoAccount},
         BlacklistChanges(id, entry),
         entry # NoAccount => \A other \in Ids \ {id} : blacklisted[other] # entry
  PROVE  AInv'
<1> USE DEF AInv, BlacklistChanges, gamerVars, localVars
<1>1. AdmissionTypeOK'
  BY DEF AdmissionTypeOK, Concerned
<1>2. ChecksInv'
  BY DEF ChecksInv, Past, AdmissionTypeOK
<1>3. UniqueInv'
  BY DEF UniqueInv, AdmissionTypeOK
<1>4. DatedInv' /\ GamerInv'
  BY DEF DatedInv, GamerInv, RowsOf
<1>5. UsedInv'
  BY DEF UsedInv, MarkedInv, MarkerInv, FailedInv, DoneInv,
         ReferrerMarked
<1> QED
  BY <1>1, <1>2, <1>3, <1>4, <1>5

LEMMA AdminInv == \A id \in Ids : AInv /\ Admin(id) => AInv'
<1> SUFFICES ASSUME AInv, NEW id \in Ids, Admin(id) PROVE AInv'
  OBVIOUS
<1>1. CASE \E a \in Accounts : CreateBlacklisted(id, a) \/ UpdateBlacklisted(id, a)
  BY <1>1, BlacklistInv DEF CreateBlacklisted, UpdateBlacklisted, UniqueAccountId
<1>2. CASE DeleteBlacklisted(id)
  BY <1>2, BlacklistInv DEF DeleteBlacklisted
<1> QED
  BY <1>1, <1>2 DEF Admin

LEMMA ReceiveInv == \A q \in Requests : AInv /\ Receive(q) => AInv'
<1> SUFFICES ASSUME AInv, NEW q \in Requests, Receive(q) PROVE AInv'
  OBVIOUS
<1> USE DEF AInv, Receive, gamerVars, localVars
<1>1. AdmissionTypeOK'
  BY DEF AdmissionTypeOK, Validated, Concerned
<1>2. ChecksInv'
  <2> SUFFICES ASSUME NEW p \in Requests PROVE ChecksInv!(p)'
    BY DEF ChecksInv
  <2>1. CASE p = q
    BY <2>1 DEF ChecksInv, AdmissionTypeOK, Past, Validated, Concerned, Blacklisted
  <2>2. CASE p # q
    BY <2>2 DEF ChecksInv, AdmissionTypeOK, Past, Blacklisted
  <2> QED
    BY <2>1, <2>2
<1>3. UniqueInv'
  BY UniqueKept
<1>4. DatedInv' /\ GamerInv'
  BY DEF DatedInv, GamerInv, RowsOf, AdmissionTypeOK
<1>5. UsedInv'
  BY DEF UsedInv, MarkedInv, MarkerInv, FailedInv, DoneInv,
         ReferrerMarked, AdmissionTypeOK
<1> QED
  BY <1>1, <1>2, <1>3, <1>4, <1>5

LEMMA CheckInv ==
  \A q \in Requests, a \in Accounts : AInv /\ CheckAccountId(q, a) => AInv'
<1> SUFFICES ASSUME AInv, NEW q \in Requests, NEW a \in Accounts,
                    CheckAccountId(q, a)
             PROVE  AInv'
  OBVIOUS
<1> USE DEF AInv, CheckAccountId, gamerVars, localVars
<1>1. AdmissionTypeOK'
  BY DEF AdmissionTypeOK
<1>2. ChecksInv'
  <2> SUFFICES ASSUME NEW p \in Requests PROVE ChecksInv!(p)'
    BY DEF ChecksInv
  <2>1. CASE p = q
    BY <2>1 DEF ChecksInv, AdmissionTypeOK, Past, Blacklisted
  <2>2. CASE p # q
    BY <2>2 DEF ChecksInv, AdmissionTypeOK, Past, Blacklisted
  <2> QED
    BY <2>1, <2>2
<1>3. UniqueInv'
  BY UniqueKept
<1>4. DatedInv' /\ GamerInv'
  BY DEF DatedInv, GamerInv, RowsOf, AdmissionTypeOK
<1>5. UsedInv'
  BY DEF UsedInv, MarkedInv, MarkerInv, FailedInv, DoneInv,
         ReferrerMarked, AdmissionTypeOK
<1> QED
  BY <1>1, <1>2, <1>3, <1>4, <1>5

LEMMA VerifyInv == \A q \in Requests : AInv /\ VerifySignature(q) => AInv'
<1> SUFFICES ASSUME AInv, NEW q \in Requests, VerifySignature(q) PROVE AInv'
  OBVIOUS
<1> USE DEF AInv, VerifySignature, gamerVars, localVars
<1>1. AdmissionTypeOK'
  BY DEF AdmissionTypeOK
<1>2. ChecksInv' /\ UniqueInv'
  BY ChecksKept, UniqueKept DEF Past, AdmissionTypeOK
<1>3. DatedInv'
  BY DEF DatedInv, IsValidSignature, IsValidTimestamp, AdmissionTypeOK, Kinds
<1>4. GamerInv'
  BY DEF GamerInv, RowsOf, AdmissionTypeOK
<1>5. UsedInv'
  BY DEF UsedInv, MarkedInv, MarkerInv, FailedInv, DoneInv,
         GamerInv, ReferrerMarked, AdmissionTypeOK
<1> QED
  BY <1>1, <1>2, <1>3, <1>4, <1>5

LEMMA FetchInv == \A q \in Requests : AInv /\ FetchOrCreate(q) => AInv'
<1> SUFFICES ASSUME AInv, NEW q \in Requests, FetchOrCreate(q) PROVE AInv'
  OBVIOUS
<1> USE DEF AInv, FetchOrCreate, gamerVars, localVars
<1>1. AdmissionTypeOK'
  BY DEF AdmissionTypeOK
<1>2. ChecksInv' /\ UniqueInv'
  BY ChecksKept, UniqueKept DEF Past, AdmissionTypeOK
<1>3. DatedInv' /\ GamerInv'
  BY DEF DatedInv, GamerInv, RowsOf, AdmissionTypeOK
<1>4. UsedInv'
  BY DEF UsedInv, MarkedInv, MarkerInv, FailedInv, DoneInv,
         GamerInv, ReferrerMarked, AdmissionTypeOK
<1> QED
  BY <1>1, <1>2, <1>3, <1>4

LEMMA SaveInv == \A q \in Requests, row \in Rows : AInv /\ SaveGamer(q, row) => AInv'
<1> SUFFICES ASSUME AInv, NEW q \in Requests, NEW row \in Rows, SaveGamer(q, row)
             PROVE  AInv'
  OBVIOUS
<1> USE DEF AInv, SaveGamer, localVars
<1>1. AdmissionTypeOK'
  BY DEF AdmissionTypeOK
<1>2. ChecksInv' /\ UniqueInv'
  BY ChecksKept, UniqueKept DEF Past, AdmissionTypeOK
<1>3. DatedInv' /\ GamerInv'
  BY DEF DatedInv, GamerInv, RowsOf, AdmissionTypeOK
<1>4. UsedInv'
  BY DEF UsedInv, MarkedInv, MarkerInv, FailedInv, DoneInv,
         GamerInv, ReferrerMarked, AdmissionTypeOK
<1> QED
  BY <1>1, <1>2, <1>3, <1>4

LEMMA RenameInv == \A q \in Requests : AInv /\ UpdateUsername(q) => AInv'
<1> SUFFICES ASSUME AInv, NEW q \in Requests, UpdateUsername(q) PROVE AInv'
  OBVIOUS
<1> USE DEF AInv, UpdateUsername, localVars
<1>1. AdmissionTypeOK'
  BY DEF AdmissionTypeOK
<1>2. ChecksInv' /\ UniqueInv'
  BY ChecksKept, UniqueKept DEF Past, AdmissionTypeOK
<1>3. DatedInv' /\ GamerInv'
  BY DEF DatedInv, GamerInv, RowsOf, AdmissionTypeOK
<1>4. UsedInv'
  BY DEF UsedInv, MarkedInv, MarkerInv, FailedInv, DoneInv,
         GamerInv, ReferrerMarked, AdmissionTypeOK
<1> QED
  BY <1>1, <1>2, <1>3, <1>4

\* Steps of a request that uses no code yet.
LEMMA UsedKept ==
  ASSUME UsedInv, NEW q \in Requests, AdmissionTypeOK,
         UNCHANGED <<referralUserId, referralUsed, faults>>,
         stage' = [stage EXCEPT ![q] = stage'[q]],
         stage[q] \notin {"marked", "done", "failed"},
         stage'[q] \notin {"marked", "done", "failed"},
         \A p \in Requests \ {q} : gamer'[p] = gamer[p] /\ referrer'[p] = referrer[p]
  PROVE  UsedInv'
<1>1. \A p \in Requests \ {q} : stage'[p] = stage[p]
  BY DEF AdmissionTypeOK
<1>2. ReferrerMarked' /\ MarkedInv' /\ FailedInv'
  BY <1>1 DEF UsedInv, ReferrerMarked, MarkedInv, FailedInv
<1>3. MarkerInv'
  BY <1>1 DEF UsedInv, MarkerInv
<1>4. DoneInv'
  BY <1>1 DEF UsedInv, DoneInv
<1> QED
  BY <1>2, <1>3, <1>4 DEF UsedInv

LEMMA FindGamerInv == \A q \in Requests : AInv /\ FindGamer(q) => AInv'
<1> SUFFICES ASSUME AInv, NEW q \in Requests, FindGamer(q) PROVE AInv'
  OBVIOUS
<1> USE DEF AInv, FindGamer, gamerVars
<1>1. AdmissionTypeOK'
  <2> DEFINE Read == [id : gamers \cup {0}, referralUserId : gamers \cup {NoReferrer}]
  <2>1. gamer' \in [Requests -> Read]
    <3>1. CASE UNCHANGED gamer
      BY <3>1 DEF AdmissionTypeOK
    <3>2. ASSUME NEW row \in RowsOf(q.accountId),
                 gamer' = [gamer EXCEPT ![q] =
                             [id |-> row, referralUserId |-> referralUserId[row]]]
          PROVE  gamer' \in [Requests -> Read]
      <4>1. row \in gamers /\ referralUserId[row] \in gamers \cup {NoReferrer}
        BY DEF RowsOf, AdmissionTypeOK
      <4> DEFINE read == [id |-> row, referralUserId |-> referralUserId[row]]
      <4>2. read \in Read
        BY <4>1
      <4>3. gamer' = [gamer EXCEPT ![q] = read]
        BY <3>2
      <4> HIDE DEF read
      <4> QED
        BY <4>2, <4>3 DEF AdmissionTypeOK
    <3> QED
      BY <3>1, <3>2
  <2> QED
    BY <2>1 DEF AdmissionTypeOK
<1>2. ChecksInv' /\ UniqueInv'
  BY ChecksKept, UniqueKept DEF Past, AdmissionTypeOK
<1>3. DatedInv'
  BY DEF DatedInv, AdmissionTypeOK
<1>4. referrer[q] = 0
  BY DEF GamerInv
<1>5. GamerInv'
  BY <1>4 DEF GamerInv, RowsOf, MayRefer, AdmissionTypeOK
<1>6. UsedInv'
  BY UsedKept DEF AdmissionTypeOK
<1> QED
  BY <1>1, <1>2, <1>3, <1>5, <1>6

LEMMA FindReferrerInv == \A q \in Requests : AInv /\ FindReferrer(q) => AInv'
<1> SUFFICES ASSUME AInv, NEW q \in Requests, FindReferrer(q) PROVE AInv'
  OBVIOUS
<1> USE DEF AInv, FindReferrer, gamerVars
<1>1. AdmissionTypeOK'
  <2>1. referrer' \in [Requests -> gamers \cup {0}]
    BY DEF AdmissionTypeOK, ReferringGamers
  <2>2. \A p \in Requests : stage'[p] \in {"referring", "marked"} => referrer'[p] # 0
    BY DEF AdmissionTypeOK, ReferringGamers
  <2> QED
    BY <2>1, <2>2 DEF AdmissionTypeOK
<1>2. ChecksInv' /\ UniqueInv'
  BY ChecksKept, UniqueKept DEF Past, AdmissionTypeOK
<1>3. DatedInv'
  BY DEF DatedInv, AdmissionTypeOK
<1>4. GamerInv'
  BY DEF GamerInv, DatedInv, RowsOf, ReferringGamers, AdmissionTypeOK
<1>5. UsedInv'
  BY UsedKept DEF AdmissionTypeOK
<1> QED
  BY <1>1, <1>2, <1>3, <1>4, <1>5

LEMMA MarkUsedInv == \A q \in Requests : AInv /\ MarkUsed(q) => AInv'
<1> SUFFICES ASSUME AInv, NEW q \in Requests, MarkUsed(q) PROVE AInv'
  OBVIOUS
<1> USE DEF AInv, MarkUsed, localVars
<1>1. AdmissionTypeOK'
  BY DEF AdmissionTypeOK
<1>2. ChecksInv' /\ UniqueInv'
  BY ChecksKept, UniqueKept DEF Past, AdmissionTypeOK
<1>3. DatedInv' /\ GamerInv'
  BY DEF DatedInv, GamerInv, RowsOf, AdmissionTypeOK
<1>4. referrer[q] \in Rows
  BY DEF AdmissionTypeOK
<1>5. UsedInv'
  <2>1. ReferrerMarked' /\ MarkedInv' /\ FailedInv'
    BY <1>4 DEF UsedInv, ReferrerMarked, MarkedInv, FailedInv, RowMarked,
                AdmissionTypeOK
  <2>2. MarkerInv'
    BY <1>4 DEF UsedInv, MarkerInv, RowMarked, AdmissionTypeOK
  <2>3. DoneInv'
    BY DEF UsedInv, DoneInv, AdmissionTypeOK
  <2> QED
    BY <2>1, <2>2, <2>3 DEF UsedInv
<1> QED
  BY <1>1, <1>2, <1>3, <1>5

LEMMA SetReferrerInv == \A q \in Requests : AInv /\ SetReferrer(q) => AInv'
<1> SUFFICES ASSUME AInv, NEW q \in Requests, SetReferrer(q) PROVE AInv'
  OBVIOUS
<1> USE DEF AInv, SetReferrer, localVars
<1>1. AdmissionTypeOK'
  BY DEF AdmissionTypeOK, GamerInv, RowReferred
<1>2. ChecksInv' /\ UniqueInv'
  BY ChecksKept, UniqueKept DEF Past, AdmissionTypeOK
<1>3. DatedInv' /\ GamerInv'
  BY DEF DatedInv, GamerInv, RowsOf, AdmissionTypeOK
<1>4. /\ gamer[q].id \in gamers /\ gamer[q].id \in Rows
      /\ referrer[q] \in Rows
      /\ q.kind = "refer"
  BY DEF AdmissionTypeOK, GamerInv
<1>5. UsedInv'
  <2>1. ReferrerMarked' /\ MarkedInv' /\ FailedInv'
    BY <1>4 DEF UsedInv, ReferrerMarked, MarkedInv, FailedInv, RowReferred,
                AdmissionTypeOK
  <2>2. MarkerInv'
    BY DEF UsedInv, MarkerInv, AdmissionTypeOK
  <2>3. DoneInv'
    <3> SUFFICES ASSUME NEW p \in Requests, stage'[p] = "done", referrer[p] # 0
                 PROVE  \E x \in Requests :
                          /\ x.kind = "refer" /\ stage'[x] = "done"
                          /\ gamer[x] = gamer[p]
                          /\ referralUserId'[gamer[p].id] = referrer[x]
      BY DEF DoneInv
    <3>1. CASE gamer[p] = gamer[q]
      <4>1. referralUserId'[gamer[p].id] = referrer[q] /\ stage'[q] = "done"
        BY <1>4, <3>1 DEF RowReferred, AdmissionTypeOK
      <4> QED
        BY <1>4, <3>1, <4>1
    <3>2. CASE gamer[p] # gamer[q]
      <4>1. stage[p] = "done"
        BY <3>2 DEF AdmissionTypeOK
      <4>2. gamer[p].id # gamer[q].id
        BY <3>2, <4>1 DEF GamerInv, AdmissionTypeOK
      <4> QED
        BY <4>1, <4>2 DEF UsedInv, DoneInv, RowReferred, AdmissionTypeOK
    <3> QED
      BY <3>1, <3>2
  <2> QED
    BY <2>1, <2>2, <2>3 DEF UsedInv
<1> QED
  BY <1>1, <1>2, <1>3, <1>5

LEMMA FailInv ==
  ASSUME AInv, NEW q \in Requests, RequestFails(q) \/ AdmissionCrash
  PROVE  AInv'
<1> USE DEF AInv
<1>1. /\ faults' = faults + 1 /\ faults \in Nat /\ faults < MaxFaults
      /\ UNCHANGED <<now, blacklisted, gamers, accountId, username, referralUserId,
                     referralUsed, unvalidated, offList, gamer, referrer>>
  BY DEF RequestFails, AdmissionCrash, AdmissionFault, gamerVars, localVars,
         AdmissionTypeOK
<1>2. /\ stage' \in [Requests -> {"unsent", "checking", "refused", "failed",
                                  "admitted", "verified", "saving", "found",
                                  "referring", "marked", "done"}]
      /\ \A p \in Requests : stage'[p] = stage[p] \/ stage'[p] = "failed"
      /\ \A p \in Requests : stage'[p] = "done" <=> stage[p] = "done"
      /\ \A p \in Requests : stage[p] = "failed" => stage'[p] = "failed"
  BY DEF RequestFails, AdmissionCrash, InHand, AdmissionTypeOK
<1>3. AdmissionTypeOK'
  BY <1>1, <1>2 DEF AdmissionTypeOK
<1>4. ChecksInv' /\ UniqueInv'
  BY <1>1, <1>2, ChecksKept, UniqueKept
<1>5. DatedInv' /\ GamerInv'
  BY <1>1, <1>2 DEF DatedInv, GamerInv, RowsOf
<1>6. UsedInv'
  <2>1. ReferrerMarked' /\ MarkedInv' /\ FailedInv'
    BY <1>1, <1>2 DEF UsedInv, ReferrerMarked, MarkedInv, FailedInv
  <2>2. MarkerInv'
    BY <1>1, <1>2 DEF UsedInv, MarkerInv
  <2>3. DoneInv'
    BY <1>1, <1>2 DEF UsedInv, DoneInv
  <2> QED
    BY <2>1, <2>2, <2>3 DEF UsedInv
<1> QED
  BY <1>3, <1>4, <1>5, <1>6

LEMMA AdmissionStep == AInv /\ [AdmissionNext]_admissionVars => AInv'
<1> SUFFICES ASSUME AInv, [AdmissionNext]_admissionVars PROVE AInv'
  OBVIOUS
<1>1. CASE TimePasses
  BY <1>1, TimePassesInv
<1>2. CASE \E id \in Ids : Admin(id)
  BY <1>2, AdminInv
<1>3. CASE \E q \in Requests : Handle(q)
  BY <1>3, ReceiveInv, CheckInv, VerifyInv, FetchInv, SaveInv, RenameInv,
     FindGamerInv, FindReferrerInv, MarkUsedInv, SetReferrerInv DEF Handle
<1>4. CASE \E q \in Requests : RequestFails(q)
  BY <1>4, FailInv
<1>5. CASE AdmissionCrash
  <2>1. CASE Requests = {}
    BY <1>5, <2>1 DEF AInv, AdmissionCrash, AdmissionFault, AdmissionTypeOK,
       ChecksInv, DatedInv, GamerInv, UsedInv, ReferrerMarked, MarkedInv,
       MarkerInv, FailedInv, DoneInv, UniqueInv, gamerVars, localVars
  <2>2. CASE Requests # {}
    BY <1>5, <2>2, FailInv
  <2> QED
    BY <2>1, <2>2
<1>6. CASE UNCHANGED admissionVars
  <2> USE <1>6 DEF admissionVars, gamerVars, handlerVars, localVars
  <2>1. AdmissionTypeOK'
    BY DEF AInv, AdmissionTypeOK
  <2>2. ChecksInv' /\ UniqueInv'
    BY ChecksKept, UniqueKept DEF AInv
  <2>3. DatedInv' /\ GamerInv'
    BY DEF AInv, DatedInv, GamerInv, RowsOf
  <2>4. UsedInv'
    BY DEF AInv, UsedInv, ReferrerMarked, MarkedInv, MarkerInv, FailedInv, DoneInv
  <2> QED
    BY <2>1, <2>2, <2>3, <2>4 DEF AInv
<1> QED
  BY <1>1, <1>2, <1>3, <1>4, <1>5, <1>6 DEF AdmissionNext

THEOREM AdmissionInductive == AdmissionSpec => []AInv
BY AdmissionInitInv, AdmissionStep, PTL DEF AdmissionSpec

-----------------------------------------------------------------------------
(* Invariants *)

(* Every variable keeps its type: in particular, whoever is written down as  *)
(* a referrer is a gamer there is.                                           *)
THEOREM AdmissionTypeCorrect == AdmissionSpec => []AdmissionTypeOK
<1>1. AInv => AdmissionTypeOK
  BY DEF AInv
<1> QED
  BY <1>1, AdmissionInductive, PTL

(* A referrer's code is marked as used whatever fails between the two        *)
(* updates of useReferralCodeIfValid.                                        *)
THEOREM CodesMarked == AdmissionSpec => []ReferrerMarked
<1>1. AInv => ReferrerMarked
  BY DEF AInv, UsedInv
<1> QED
  BY <1>1, AdmissionInductive, PTL

(* A code is marked for nothing only by a fault or a race of two requests    *)
(* for the same row of table gamers.                                         *)
THEOREM CodesNotWasted == AdmissionSpec => []UsedCodeRefers
<1>1. ASSUME AInv PROVE UsedCodeRefers
  <2> SUFFICES ASSUME NEW r \in Rows, referralUsed[r], faults = 0
               PROVE  UsedCodeRefers!(r)!2
    BY <1>1 DEF UsedCodeRefers, AInv, AdmissionTypeOK
  <2>1. PICK q \in Requests : referrer[q] = r /\ stage[q] \in {"marked", "done"}
    BY <1>1 DEF AInv, UsedInv, MarkerInv, FailedInv
  <2>2. CASE stage[q] = "marked"
    BY <2>1, <2>2
  <2>3. CASE stage[q] = "done"
    <3>1. r # 0
      OBVIOUS
    <3>2. PICK p \in Requests :
            /\ p.kind = "refer" /\ stage[p] = "done" /\ gamer[p] = gamer[q]
            /\ referralUserId[gamer[q].id] = referrer[p]
      BY <1>1, <2>1, <2>3, <3>1 DEF AInv, UsedInv, DoneInv
    <3>3. CASE p = q
      <4>1. gamer[q].id \in gamers \ {r}
        BY <1>1, <2>1, <3>1 DEF AInv, GamerInv
      <4> QED
        BY <2>1, <3>2, <3>3, <4>1
    <3>4. CASE p # q
      BY <2>1, <2>3, <3>2, <3>4
    <3> QED
      BY <3>3, <3>4
  <2> QED
    BY <2>1, <2>2, <2>3
<1> QED
  BY <1>1, AdmissionInductive, PTL

(* No message without a time is let through, and no code used on one.        *)
THEOREM UndatedNeverPass == AdmissionSpec => []UndatedRefused
<1>1. AInv => UndatedRefused
  BY DEF AInv, DatedInv, UsedInv, MarkerInv, GamerInv, UndatedRefused
<1> QED
  BY <1>1, AdmissionInductive, PTL

-----------------------------------------------------------------------------
(* Action properties *)

\* A request that has come through its checks, or is in them still, changes
\* nothing for accounts it does not name.
LEMMA HandleConcerns ==
  ASSUME AInv, NEW q \in Requests, Handle(q), NEW a \in Accounts,
         Affairs(a)' # Affairs(a)
  PROVE  InHand(q) /\ a \in Concerned(q) /\ Concerned(q) \subseteq offList[q]
<1> USE DEF AInv
<1>1. CASE stage[q] \in Past \ {"done"}
  <2>1. InHand(q) /\ Concerned(q) \subseteq offList[q]
    BY <1>1 DEF InHand, ChecksInv, Past
  <2>2. a \in Concerned(q)
    <3> SUFFICES ASSUME a \notin Concerned(q) PROVE Affairs(a)' = Affairs(a)
      OBVIOUS
    <3>1. a # q.accountId
      BY DEF Concerned
    <3>2. /\ \A p \in Requests \ {q} : stage'[p] = stage[p]
          /\ \A p \in Requests : a \in Concerned(p) => stage'[p] = stage[p]
      BY <1>1 DEF Handle, Past, Receive, CheckAccountId, VerifySignature, FetchOrCreate,
           SaveGamer, UpdateUsername, FindGamer, FindReferrer, MarkUsed,
           SetReferrer, AdmissionTypeOK
    <3>3. /\ RowsOf(a)' = RowsOf(a)
          /\ \A row \in RowsOf(a) : username'[row] = username[row]
                                    /\ referralUserId'[row] = referralUserId[row]
      <4>1. CASE UNCHANGED gamerVars
        BY <4>1 DEF gamerVars, RowsOf
      <4>2. CASE \E row \in Rows : SaveGamer(q, row)
        BY <3>1, <4>2 DEF SaveGamer, RowsOf, AdmissionTypeOK
      <4>3. CASE UpdateUsername(q)
        BY <3>1, <4>3 DEF UpdateUsername, RowsOf, AdmissionTypeOK
      <4>4. CASE MarkUsed(q)
        BY <4>4 DEF MarkUsed, RowsOf
      <4>5. CASE SetReferrer(q)
        BY <3>1, <4>5 DEF SetReferrer, RowReferred, GamerInv, RowsOf, AdmissionTypeOK
      <4> QED
        BY <1>1, <4>1, <4>2, <4>3, <4>4, <4>5
        DEF Handle, Past, Receive, CheckAccountId, VerifySignature, FetchOrCreate,
            FindGamer, FindReferrer
    <3>4. {p \in Requests : a \in Concerned(p) /\ stage[p] = "done"}'
            = {p \in Requests : a \in Concerned(p) /\ stage[p] = "done"}
      BY <3>2 DEF Concerned
    <3> QED
      BY <3>3, <3>4 DEF Affairs
  <2> QED
    BY <2>1, <2>2
<1>2. CASE stage[q] \notin Past \ {"done"}
  <2>1. Receive(q) \/ \E b \in Accounts : CheckAccountId(q, b)
    BY <1>2 DEF Handle, Past, VerifySignature, FetchOrCreate, SaveGamer,
         UpdateUsername, FindGamer, FindReferrer, MarkUsed, SetReferrer
  <2>2. UNCHANGED gamerVars
    BY <2>1 DEF Receive, CheckAccountId
  <2>3. \A p \in Requests : stage'[p] = "done" <=> stage[p] = "done"
    BY <2>1 DEF Receive, CheckAccountId, AdmissionTypeOK
  <2> QED
    BY <2>2, <2>3 DEF Affairs, gamerVars, RowsOf, Concerned
<1> QED
  BY <1>1, <1>2

(* Nothing changes for an account but by a request whose accounts were all   *)
(* off the blacklist while it was checked.                                   *)
THEOREM BlacklistHolds == AdmissionSpec => BlacklistTakesHold
<1> DEFINE Held == \A a \in Accounts : Affairs(a)' # Affairs(a) =>
                     \E q \in Requests : /\ InHand(q)
                                         /\ a \in Concerned(q)
                                         /\ Concerned(q) \subseteq offList[q]
<1>1. ASSUME AInv, AdmissionNext PROVE Held
  <2> SUFFICES ASSUME NEW a \in Accounts, Affairs(a)' # Affairs(a)
               PROVE  Held!(a)!2
    OBVIOUS
  <2>1. CASE \E q \in Requests : Handle(q)
    BY <1>1, <2>1, HandleConcerns
  <2>2. CASE ~ \E q \in Requests : Handle(q)
    <3>1. UNCHANGED gamerVars
      BY <1>1, <2>2 DEF AdmissionNext, TimePasses, Admin, CreateBlacklisted,
         UpdateBlacklisted, DeleteBlacklisted, BlacklistChanges, RequestFails,
         AdmissionCrash
    <3>2. \A p \in Requests : stage'[p] = "done" <=> stage[p] = "done"
      BY <1>1, <2>2 DEF AdmissionNext, TimePasses, Admin, CreateBlacklisted,
         UpdateBlacklisted, DeleteBlacklisted, BlacklistChanges, RequestFails,
         AdmissionCrash, handlerVars, InHand, AInv, AdmissionTypeOK
    <3> QED
      BY <3>1, <3>2 DEF Affairs, gamerVars, RowsOf, Concerned
  <2> QED
    BY <2>1, <2>2
<1>2. AInv /\ [AdmissionNext]_admissionVars => [Held]_admissionVars
  BY <1>1
<1> QED
  BY <1>2, AdmissionInductive, PTL DEF AdmissionSpec, BlacklistTakesHold

(* One deletion or change lifts a ban: no account has two entries.           *)
THEOREM BansLifted == AdmissionSpec => DeletionLifts
<1> DEFINE Lifted == \A id \in Ids : blacklisted'[id] # blacklisted[id] =>
                       \A other \in Ids : blacklisted[id] \in Accounts =>
                         blacklisted'[other] # blacklisted[id]
<1>1. ASSUME AInv, AdmissionNext PROVE Lifted
  <2> SUFFICES ASSUME NEW id \in Ids, blacklisted'[id] # blacklisted[id],
                      NEW other \in Ids, blacklisted[id] \in Accounts
               PROVE  blacklisted'[other] # blacklisted[id]
    OBVIOUS
  <2>1. PICK changed \in Ids, entry \in Accounts \cup {NoAccount} :
          BlacklistChanges(changed, entry)
    BY <1>1 DEF AdmissionNext, Admin, CreateBlacklisted, UpdateBlacklisted,
         DeleteBlacklisted, TimePasses, Handle, Receive, CheckAccountId,
         VerifySignature, FetchOrCreate, SaveGamer, UpdateUsername, FindGamer,
         FindReferrer, MarkUsed, SetReferrer, RequestFails, AdmissionCrash
  <2>2. changed = id
    BY <1>1, <2>1 DEF BlacklistChanges, AInv, AdmissionTypeOK
  <2>3. CASE other = id
    BY <2>3
  <2>4. CASE other # id
    BY <1>1, <2>1, <2>2, <2>4
    DEF BlacklistChanges, AInv, AdmissionTypeOK, UniqueInv
  <2> QED
    BY <2>3, <2>4
<1>2. AInv /\ [AdmissionNext]_admissionVars => [Lifted]_admissionVars
  BY <1>1
<1> QED
  BY <1>2, AdmissionInductive, PTL DEF AdmissionSpec, DeletionLifts

=============================================================================
