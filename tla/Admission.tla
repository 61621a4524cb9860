------------------------------ MODULE Admission ------------------------------
(***************************************************************************)
(* Which requests are let in, and the ones GamerService answers itself:    *)
(* admins edit the blacklist while AccountIdPipe and @IsAccountIdValid ask *)
(* it about the accounts of requests; signed requests have their message   *)
(* and its age checked; then a gamer is created or renamed, or a referral  *)
(* code is used.  What startGame and endGame do with the requests passed   *)
(* on to them is in ChipLedger and Settlement.                             *)
(*                                                                         *)
(* A step is one awaited query or statement with the code up to the next.  *)
(***************************************************************************)
EXTENDS Integers, FiniteSets

CONSTANTS
  Accounts,
  Supported,     \* the accounts in a supported format
  Ids,           \* ids of entries of the blacklist (a bound)
  Rows,          \* ids of rows of table gamers (a bound)
  KnownGamers,   \* the accounts of the rows there are at the start, by row
  Requests,      \* requests clients may send
  NaN,           \* what Number makes of what is no number
  MAX_AGE,       \* of a signed message, four hours
  MaxRequests,   \* bound on how many requests are sent
  MaxTime,       \* bound of the clock
  Faults, MaxFaults

NoReferrer == 0
NoAccount == "none"
NoName == "none"
NoGamer == [id |-> 0, referralUserId |-> NoReferrer]

(***************************************************************************)
(* A request is a record [id, kind, accountId, named, username, code,      *)
(* signed, signedAt]: named are the accounts in its results, code is a row *)
(* with that referral code or 0, signed tells whether the signature is     *)
(* that of the account, and signedAt is what Number makes of the end of    *)
(* the message.  The message of useReferralCode is fixed and ends in no    *)
(* number, so that as the code stands signedAt is NaN there; requests      *)
(* with another value show what the code after the check is written to do. *)
(***************************************************************************)
Kinds == {"visit", "rename", "refer", "play", "over"}

ASSUME RequestsAssumption ==
  \A q \in Requests :
    /\ q.kind \in Kinds
    /\ q.accountId \in Accounts
    /\ q.named \subseteq Accounts
    /\ q.code \in Rows \cup {0}
    /\ q.signed \in BOOLEAN
    /\ q.signedAt \in Int \cup {NaN}

ASSUME RowsAssumption ==
  /\ Rows \subseteq Nat \ {0}
  /\ NoAccount \notin Accounts
  /\ DOMAIN KnownGamers \subseteq Rows
  /\ \A row \in DOMAIN KnownGamers : KnownGamers[row] \in Accounts

ASSUME BoundsAssumption ==
  /\ NaN \notin Int
  /\ MAX_AGE \in Nat /\ MaxTime \in Nat
  /\ MaxRequests \in Nat
  /\ Faults \subseteq {"crash", "db"} /\ MaxFaults \in Nat

VARIABLES
  now,
  blacklisted,   \* table blacklisted_accounts: the account of each entry
  \* table gamers: rows in use and columns
  gamers, accountId, username, referralUserId, referralUsed,
  \* handlers: where each is, accounts still to be asked about, rows read
  stage, unvalidated, gamer, referrer,
  \* accounts of a request that were off the blacklist at some moment between
  \* its receipt and the end of its checks (history variable)
  offList,
  faults

gamerVars == <<gamers, accountId, username, referralUserId, referralUsed>>
localVars == <<gamer, referrer>>
handlerVars == <<stage, unvalidated, offList, localVars>>
admissionVars == <<now, blacklisted, gamerVars, handlerVars, faults>>

Blacklisted(a) == \E id \in Ids : blacklisted[id] = a
Concerned(q) == {q.accountId} \cup q.named
RowsOf(a) == {row \in gamers : accountId[row] = a}

AdmissionInit ==
  /\ now = 0
  /\ blacklisted = [id \in Ids |-> NoAccount]
  /\ gamers = DOMAIN KnownGamers
  /\ accountId = [row \in Rows |-> IF row \in DOMAIN KnownGamers
                                   THEN KnownGamers[row] ELSE NoAccount]
  /\ username = [row \in Rows |-> NoName]
  /\ referralUserId = [row \in Rows |-> NoReferrer]
  /\ referralUsed = [row \in Rows |-> FALSE]
  /\ stage = [q \in Requests |-> "unsent"]
  /\ unvalidated = [q \in Requests |-> {}]
  /\ offList = [q \in Requests |-> {}]
  /\ gamer = [q \in Requests |-> NoGamer]
  /\ referrer = [q \in Requests |-> 0]
  /\ faults = 0

TimePasses ==
  /\ now < MaxTime
  /\ now' = now + 1
  /\ UNCHANGED <<blacklisted, gamerVars, handlerVars, faults>>

-----------------------------------------------------------------------------
(* BlacklistedService: requests of admins, one statement each *)

\* Mutant: the migration lacks the unique constraint on account_id.
NoConstraint(id, a) == a \in Accounts
UniqueAccountId(id, a) == \A other \in Ids \ {id} : blacklisted[other] # a

BlacklistChanges(id, entry) ==
  /\ blacklisted' = [blacklisted EXCEPT ![id] = entry]
  /\ offList' = [q \in Requests |-> offList[q] \cup
       IF stage[q] = "checking" THEN {a \in Concerned(q) : ~Blacklisted(a)'} ELSE {}]
  /\ UNCHANGED <<now, gamerVars, stage, unvalidated, localVars, faults>>

\* A refused statement is answered by 400 and changes nothing.
CreateBlacklisted(id, a) ==
  /\ blacklisted[id] = NoAccount
  /\ UniqueAccountId(id, a)
  /\ BlacklistChanges(id, a)

UpdateBlacklisted(id, a) ==
  /\ blacklisted[id] # NoAccount
  /\ UniqueAccountId(id, a)
  /\ BlacklistChanges(id, a)

\* Deleting what is not there is no error.
DeleteBlacklisted(id) == BlacklistChanges(id, NoAccount)

-----------------------------------------------------------------------------
(* Requests and their validation *)

\* Mutant: the validator is left off the accounts of EndGameResultDto.
OwnAccount(q) == {q.accountId}
Validated(q) == Concerned(q)

Receive(q) ==
  /\ stage[q] = "unsent"
  /\ Cardinality({p \in Requests : stage[p] # "unsent"}) < MaxRequests
  /\ stage' = [stage EXCEPT ![q] = "checking"]
  /\ unvalidated' = [unvalidated EXCEPT ![q] = Validated(q)]
  /\ offList' = [offList EXCEPT ![q] = {a \in Concerned(q) : ~Blacklisted(a)}]
  /\ UNCHANGED <<now, blacklisted, gamerVars, localVars, faults>>

(* AccountIdValidator.validate, one of the queries issued for a request; the *)
(* handler is called once they are all answered.                             *)
CheckAccountId(q, a) ==
  /\ stage[q] = "checking"
  /\ a \in unvalidated[q]
  /\ unvalidated' = [unvalidated EXCEPT ![q] = @ \ {a}]
  /\ stage' = [stage EXCEPT ![q] =
       IF a \notin Supported \/ Blacklisted(a) THEN "refused"
       ELSE IF unvalidated[q] = {a} THEN "admitted" ELSE "checking"]
  /\ UNCHANGED <<now, blacklisted, gamerVars, offList, localVars, faults>>

\* Mutant: the test is for older messages, which no NaN is.
NotOlder(q) == q.signedAt = NaN \/ q.signedAt >= now - MAX_AGE
IsValidTimestamp(q) == q.signedAt # NaN /\ q.signedAt >= now - MAX_AGE

IsValidSignature(q) == q.signed /\ IsValidTimestamp(q)

\* A message isValidSignature throws on counts as not signed.  What play and over
\* do next is in other modules.
VerifySignature(q) ==
  /\ stage[q] = "admitted"
  /\ q.kind \in {"refer", "play", "over"}
  /\ stage' = [stage EXCEPT ![q] =
       IF ~IsValidSignature(q) THEN "refused"
       ELSE IF q.kind = "refer" THEN "verified" ELSE "done"]
  /\ UNCHANGED <<now, blacklisted, gamerVars, unvalidated, offList, localVars, faults>>

-----------------------------------------------------------------------------
(* GamerService *)

FetchOrCreate(q) ==
  /\ stage[q] = "admitted"
  /\ q.kind = "visit"
  /\ stage' = [stage EXCEPT ![q] = IF RowsOf(q.accountId) = {} THEN "saving"
                                                               ELSE "done"]
  /\ UNCHANGED <<now, blacklisted, gamerVars, unvalidated, offList, localVars, faults>>

SaveGamer(q, row) ==
  /\ stage[q] = "saving"
  /\ row \notin gamers
  /\ gamers' = gamers \cup {row}
  /\ accountId' = [accountId EXCEPT ![row] = q.accountId]
  /\ stage' = [stage EXCEPT ![q] = "done"]
  /\ UNCHANGED <<now, blacklisted, username, referralUserId, referralUsed,
                 unvalidated, offList, localVars, faults>>

\* By account, all rows of it; the answer is an error if there are none.
UpdateUsername(q) ==
  /\ stage[q] = "admitted"
  /\ q.kind = "rename"
  /\ username' = [row \in Rows |-> IF row \in RowsOf(q.accountId)
                                   THEN q.username ELSE username[row]]
  /\ stage' = [stage EXCEPT ![q] = "done"]
  /\ UNCHANGED <<now, blacklisted, gamers, accountId, referralUserId,
                 referralUsed, unvalidated, offList, localVars, faults>>

MayRefer(q, row) == q.code # 0 /\ referralUserId[row] = NoReferrer

\* useReferralCode: one of the account's rows, and the early returns on it.
FindGamer(q) ==
  /\ stage[q] = "verified"
  /\ \/ /\ RowsOf(q.accountId) = {}
        /\ stage' = [stage EXCEPT ![q] = "refused"]
        /\ UNCHANGED gamer
     \/ \E row \in RowsOf(q.accountId) :
          /\ gamer' = [gamer EXCEPT ![q] =
               [id |-> row, referralUserId |-> referralUserId[row]]]
          /\ stage' = [stage EXCEPT ![q] = IF MayRefer(q, row) THEN "found"
                                                               ELSE "refused"]
  /\ UNCHANGED <<now, blacklisted, gamerVars, unvalidated, offList,
                 referrer, faults>>

\* Mutant: nobody is taken for a referrer.
OrNobody(q) == ((gamers \cap {q.code}) \ {gamer[q].id}) \cup {0}
ReferringGamers(q) == (gamers \cap {q.code}) \ {gamer[q].id}

FindReferrer(q) ==
  /\ stage[q] = "found"
  /\ \/ /\ ReferringGamers(q) = {}
        /\ stage' = [stage EXCEPT ![q] = "refused"]
        /\ UNCHANGED referrer
     \/ \E row \in ReferringGamers(q) :
          /\ referrer' = [referrer EXCEPT ![q] = row]
          /\ stage' = [stage EXCEPT ![q] = "referring"]
  /\ UNCHANGED <<now, blacklisted, gamerVars, unvalidated, offList, gamer,
                 faults>>

\* Mutant: the update names the other gamer.
GamerMarked(q) == gamer[q].id
RowMarked(q) == referrer[q]

MarkUsed(q) ==
  /\ stage[q] = "referring"
  /\ referralUsed' = [referralUsed EXCEPT ![RowMarked(q)] = TRUE]
  /\ stage' = [stage EXCEPT ![q] = "marked"]
  /\ UNCHANGED <<now, blacklisted, gamers, accountId, username, referralUserId,
                 unvalidated, offList, localVars, faults>>

\* Mutant: the update names the other gamer.
ReferrerReferred(q) == referrer[q]
RowReferred(q) == gamer[q].id

SetReferrer(q) ==
  /\ stage[q] = "marked"
  /\ referralUserId' = [referralUserId EXCEPT ![RowReferred(q)] = referrer[q]]
  /\ stage' = [stage EXCEPT ![q] = "done"]
  /\ UNCHANGED <<now, blacklisted, gamers, accountId, username, referralUsed,
                 unvalidated, offList, localVars, faults>>

-----------------------------------------------------------------------------
(* Faults *)

AdmissionFault(kind) ==
  /\ kind \in Faults
  /\ faults < MaxFaults
  /\ faults' = faults + 1

InHand(q) == stage[q] \notin {"unsent", "refused", "failed", "done"}

\* A query or statement is rejected, and the request with it.
RequestFails(q) ==
  /\ AdmissionFault("db")
  /\ InHand(q)
  /\ stage' = [stage EXCEPT ![q] = "failed"]
  /\ UNCHANGED <<now, blacklisted, gamerVars, unvalidated, offList, localVars>>

AdmissionCrash ==
  /\ AdmissionFault("crash")
  /\ stage' = [q \in Requests |-> IF InHand(q) THEN "failed" ELSE stage[q]]
  /\ UNCHANGED <<now, blacklisted, gamerVars, unvalidated, offList, localVars>>

-----------------------------------------------------------------------------

Admin(id) ==
  \/ \E a \in Accounts : CreateBlacklisted(id, a) \/ UpdateBlacklisted(id, a)
  \/ DeleteBlacklisted(id)

Handle(q) ==
  \/ Receive(q)
  \/ \E a \in Accounts : CheckAccountId(q, a)
  \/ VerifySignature(q)
  \/ FetchOrCreate(q)
  \/ \E row \in Rows : SaveGamer(q, row)
  \/ UpdateUsername(q)
  \/ FindGamer(q)
  \/ FindReferrer(q)
  \/ MarkUsed(q)
  \/ SetReferrer(q)

AdmissionNext ==
  \/ TimePasses
  \/ \E id \in Ids : Admin(id)
  \/ \E q \in Requests : Handle(q) \/ RequestFails(q)
  \/ AdmissionCrash

AdmissionSpec == AdmissionInit /\ [][AdmissionNext]_admissionVars

-----------------------------------------------------------------------------
(* Properties *)

AdmissionTypeOK ==
  /\ now \in 0 .. MaxTime
  /\ blacklisted \in [Ids -> Accounts \cup {NoAccount}]
  /\ gamers \subseteq Rows
  /\ accountId \in [Rows -> Accounts \cup {NoAccount}]
  /\ username \in [Rows -> {NoName} \cup {q.username : q \in Requests}]
  /\ referralUserId \in [Rows -> gamers \cup {NoReferrer}]
  /\ referralUsed \in [Rows -> BOOLEAN]
  /\ stage \in [Requests -> {"unsent", "checking", "refused", "failed",
                             "admitted", "verified", "saving", "found",
                             "referring", "marked", "done"}]
  /\ unvalidated \in [Requests -> SUBSET Accounts]
  /\ offList \in [Requests -> SUBSET Accounts]
  /\ gamer \in [Requests -> [id : gamers \cup {0},
                             referralUserId : gamers \cup {NoReferrer}]]
  /\ referrer \in [Requests -> gamers \cup {0}]
  /\ \A q \in Requests : stage[q] \in {"referring", "marked"} => referrer[q] # 0
  /\ faults \in 0 .. MaxFaults

\* What the requests an account is named in have done: its rows and what is
\* in them, and the requests carried out.
Affairs(a) ==
  <<RowsOf(a), [row \in RowsOf(a) |-> <<username[row], referralUserId[row]>>],
    {q \in Requests : a \in Concerned(q) /\ stage[q] = "done"}>>

(* Something changes for an account only by a request every account of which *)
(* was off the blacklist at some moment after its receipt: once an account   *)
(* is on it, no row is created for it, renamed or referred, no seat is taken *)
(* and no result reported for it by anybody, except by requests in hand that *)
(* had asked before.  Query and statement are no transaction, so those       *)
(* requests are the window.                                                  *)
BlacklistTakesHold ==
  [][\A a \in Accounts : Affairs(a)' # Affairs(a) =>
       \E q \in Requests : /\ InHand(q)
                           /\ a \in Concerned(q)
                           /\ Concerned(q) \subseteq offList[q]]_admissionVars

(* One deletion or change of its entry takes an account off the blacklist:   *)
(* however admins' requests follow each other, no second entry keeps it on.  *)
DeletionLifts ==
  [][\A id \in Ids : blacklisted'[id] # blacklisted[id] =>
       \A other \in Ids : blacklisted[id] \in Accounts =>
         blacklisted'[other] # blacklisted[id]]_admissionVars

(* Whoever is somebody's referrer has its code marked as used, at every      *)
(* moment: the two updates of useReferralCodeIfValid are no transaction, but *)
(* a crash or failure between them leaves a code marked and nobody referred, *)
(* never the reverse.                                                        *)
ReferrerMarked ==
  \A row \in Rows : referralUserId[row] # NoReferrer =>
    referralUsed[referralUserId[row]]

(* A code is used up for nothing only by a fault, or by two requests of one  *)
(* gamer that both read it before it had a referrer: otherwise somebody else *)
(* was referred by it, or is about to be.                                    *)
UsedCodeRefers ==
  \A r \in Rows : referralUsed[r] =>
    \/ faults > 0
    \/ \E row \in gamers \ {r} : referralUserId[row] = r
    \/ \E q \in Requests : referrer[q] = r /\ stage[q] = "marked"
    \/ \E q \in Requests :
         /\ referrer[q] = r /\ stage[q] = "done"
         /\ \E p \in Requests \ {q} :
              /\ p.kind = "refer" /\ stage[p] = "done"
              /\ gamer[p] = gamer[q]
              /\ referralUserId[gamer[q].id] = referrer[p]

(* A message that ends in no number is never let through: no seat is taken   *)
(* and no result reported on it, and every code that was ever used up was    *)
(* used by a message with a time, of which useReferralCode has none.         *)
UndatedRefused ==
  /\ \A q \in Requests : stage[q] = "done" /\ q.kind \in {"refer", "play", "over"} =>
       q.signedAt # NaN
  /\ \A r \in Rows : referralUsed[r] =>
       \E q \in Requests : referrer[q] = r /\ q.signedAt # NaN

=============================================================================
