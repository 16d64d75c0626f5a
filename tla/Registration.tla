---------------------------- MODULE Registration ----------------------------
(***************************************************************************)
(* One e-mail address from its registration to its verification: Register, *)
(* ResendVerificationCode and VerifyEmail of internal/auth/service.go over *)
(* the users table and the entry of the cache that holds the code.         *)
(*                                                                         *)
(* Every call of the cache and of the database is a step of its own.  The  *)
(* counters of attempts are in RateLimits: a request they refuse does not  *)
(* begin here.  The end of the time of a code may come at any moment; Get  *)
(* and the janitor delete by key what they have seen expired.              *)
(***************************************************************************)
CONSTANTS Visits,   \* requests the server works on at the same time
          Codes,    \* verification codes, each generated once
          NoCode    \* in the place of a code

ASSUME AbsenceAssumption == NoCode \notin Codes

VARIABLES
  account,   \* users: "none", "unverified" or "verified"
  code,      \* the entry authVerificationKey, or NoCode
  codeLives, \* whether its time still runs
  sweeping,  \* whether the janitor has seen it expired
  visit,     \* what each running request is at
  used,      \* the codes generated
  sent,      \* history: the code handed to the mail last
  dropped,   \* history: a code issued after it whose mail was dropped, the last, or NoCode
  misled,    \* history: a late delete has hit a code set since
  crossed    \* history: a code was set while another request was at one, or by
             \* a registration that another one has overtaken

registrationVars == <<account, code, codeLives, sweeping, visit, used, sent, dropped, misled, crossed>>

VisitPlaces == {"idle", "looking", "coding", "creating", "mailing",
                "comparing", "evicting", "proving", "forgetting"}

Visit == [at : VisitPlaces,
          op : {"register", "resend", "verify"},
          code : Codes \union {NoCode}]   \* the one issued, or the one submitted

VisitIdle == [at |-> "idle", op |-> "register", code |-> NoCode]

VisitAt(r, place) == visit[r].at = place
Go(r, place) == visit' = [visit EXCEPT ![r].at = place]
Leave(r) == visit' = [visit EXCEPT ![r] = VisitIdle]

\* Requests that have put a code into the cache and are not through with it.
Issuing == {r \in Visits : visit[r].at \in {"creating", "mailing"}}

RegistrationInit ==
  /\ account = "none"
  /\ code = NoCode
  /\ codeLives = FALSE
  /\ sweeping = FALSE
  /\ visit = [r \in Visits |-> VisitIdle]
  /\ used = {}
  /\ sent = NoCode
  /\ dropped = NoCode
  /\ misled = FALSE
  /\ crossed = FALSE

BeginVisit(r, op, c) ==
  /\ VisitAt(r, "idle")
  /\ visit' = [visit EXCEPT ![r] = [at |-> "looking", op |-> op, code |-> c]]
  /\ UNCHANGED <<account, code, codeLives, sweeping, used, sent, dropped, misled, crossed>>

Register(r) == BeginVisit(r, "register", NoCode)
ResendVerificationCode(r) == BeginVisit(r, "resend", NoCode)
VerifyEmail(r) == \E c \in used : BeginVisit(r, "verify", c)

\* GetByEmail, and what each operation makes of it.
Look(r) ==
  /\ VisitAt(r, "looking")
  /\ CASE visit[r].op = "register" /\ account = "none" -> Go(r, "coding")
       [] visit[r].op = "resend" /\ account = "unverified" -> Go(r, "coding")
       [] visit[r].op = "verify" /\ account = "unverified" -> Go(r, "comparing")
       [] OTHER -> Leave(r)
  /\ UNCHANGED <<account, code, codeLives, sweeping, used, sent, dropped, misled, crossed>>

(***************************************************************************)
(* Issuing a code: GenerateVerificationCode and Set; for a registration    *)
(* then Create, the e-mail address being unique; and SubmitAsync, which    *)
(* queues the mail or, the queue being full or closed, drops it.  A drop   *)
(* is logged and the request answered as if the mail were on its way; the  *)
(* code is in the cache by then and the one before it is gone.             *)
(***************************************************************************)
SetCode(r, c) ==
  /\ VisitAt(r, "coding") /\ c \notin used
  /\ code' = c
  /\ codeLives' = TRUE
  /\ used' = used \union {c}
  /\ crossed' = (crossed \/ Issuing # {} \/ (visit[r].op = "register" /\ account # "none"))
  /\ visit' = [visit EXCEPT ![r] =
                   [at |-> IF @.op = "register" THEN "creating" ELSE "mailing",
                    op |-> @.op, code |-> c]]
  /\ UNCHANGED <<account, sweeping, sent, dropped, misled>>

CreateAccount(r) ==
  /\ VisitAt(r, "creating")
  /\ IF account = "none" THEN account' = "unverified" /\ Go(r, "mailing")
                         ELSE Leave(r) /\ UNCHANGED account
  /\ UNCHANGED <<code, codeLives, sweeping, used, sent, dropped, misled, crossed>>

MailCode(r) ==
  /\ VisitAt(r, "mailing")
  /\ sent' = visit[r].code
  /\ dropped' = NoCode
  /\ Leave(r)
  /\ UNCHANGED <<account, code, codeLives, sweeping, used, misled, crossed>>

\* Dropped; or no mail is tried: none is configured, or the flag is off and
\* the code logged.
DropMail(r) ==
  /\ VisitAt(r, "mailing")
  /\ dropped' = visit[r].code
  /\ Leave(r)
  /\ UNCHANGED <<account, code, codeLives, sweeping, used, sent, misled, crossed>>

(***************************************************************************)
(* VerifyEmail.                                                            *)
(***************************************************************************)
\* With the flag SkipVerificationCode the code is not looked at.
SkipCode(r) ==
  /\ VisitAt(r, "looking") /\ visit[r].op = "verify" /\ account = "unverified"
  /\ account' = "verified"
  /\ Leave(r)
  /\ UNCHANGED <<code, codeLives, sweeping, used, sent, dropped, misled, crossed>>

\* Forgetting the code on a wrong one:
AfterWrongCode == "forgetting"

\* ... and as the code answers it.
AfterMismatch == "idle"

\* Get, and the comparison; an expired entry is deleted.
CompareCode(r) ==
  /\ VisitAt(r, "comparing")
  /\ Go(r, CASE code = NoCode -> "idle"
             [] code # NoCode /\ ~codeLives -> "evicting"
             [] code = visit[r].code /\ codeLives -> "proving"
             [] OTHER -> AfterMismatch)
  /\ UNCHANGED <<account, code, codeLives, sweeping, used, sent, dropped, misled, crossed>>

\* A delete of what was seen expired, and may have been set again since.
DeleteExpired ==
  /\ code' = NoCode
  /\ misled' = (misled \/ codeLives)

EvictCode(r) ==
  /\ VisitAt(r, "evicting")
  /\ DeleteExpired
  /\ Leave(r)
  /\ UNCHANGED <<account, codeLives, sweeping, used, sent, dropped, crossed>>

SetVerified(r) ==
  /\ VisitAt(r, "proving")
  /\ account' = "verified"
  /\ Go(r, "forgetting")
  /\ UNCHANGED <<code, codeLives, sweeping, used, sent, dropped, misled, crossed>>

\* Delete, whatever the code is by then; the counter goes too.
ForgetCode(r) ==
  /\ VisitAt(r, "forgetting")
  /\ code' = NoCode
  /\ Leave(r)
  /\ UNCHANGED <<account, codeLives, sweeping, used, sent, dropped, misled, crossed>>

\* A database error, a panic or the end of the time for the request.
GiveUpVisit(r) ==
  /\ visit[r].at \in {"looking", "coding", "creating", "comparing", "proving"}
  /\ Leave(r)
  /\ UNCHANGED <<account, code, codeLives, sweeping, used, sent, dropped, misled, crossed>>

(***************************************************************************)
(* Time, and the janitor.                                                  *)
(***************************************************************************)
CodeExpires ==
  /\ codeLives
  /\ codeLives' = FALSE
  /\ UNCHANGED <<account, code, sweeping, visit, used, sent, dropped, misled, crossed>>

SweeperSees ==
  /\ ~sweeping /\ code # NoCode /\ ~codeLives
  /\ sweeping' = TRUE
  /\ UNCHANGED <<account, code, codeLives, visit, used, sent, dropped, misled, crossed>>

SweeperDeletes ==
  /\ sweeping
  /\ DeleteExpired
  /\ sweeping' = FALSE
  /\ UNCHANGED <<account, codeLives, visit, used, sent, dropped, crossed>>

IssueCode(r) ==
  \/ Register(r) \/ ResendVerificationCode(r) \/ Look(r)
  \/ (\E c \in Codes : SetCode(r, c)) \/ CreateAccount(r)
  \/ MailCode(r) \/ DropMail(r)

CheckCode(r) ==
  \/ VerifyEmail(r) \/ SkipCode(r) \/ CompareCode(r)
  \/ EvictCode(r) \/ SetVerified(r) \/ ForgetCode(r)

RegistrationNext ==
  \/ \E r \in Visits : IssueCode(r) \/ CheckCode(r) \/ GiveUpVisit(r)
  \/ CodeExpires \/ SweeperSees \/ SweeperDeletes

RegistrationSpec == RegistrationInit /\ [][RegistrationNext]_registrationVars

RegistrationTypeOK ==
  /\ account \in {"none", "unverified", "verified"}
  /\ code \in Codes \union {NoCode}
  /\ codeLives \in BOOLEAN
  /\ sweeping \in BOOLEAN
  /\ visit \in [Visits -> Visit]
  /\ used \subseteq Codes
  /\ sent \in Codes \union {NoCode}
  /\ dropped \in Codes \union {NoCode}
  /\ misled \in BOOLEAN
  /\ crossed \in BOOLEAN

\* The code issued last: the one mailed last, or one since whose mail was dropped.
LastIssued == IF dropped = NoCode THEN sent ELSE dropped

(***************************************************************************)
(* For as long as its time runs, an account that is not verified yet is    *)
(* verified by the code issued last: the one mailed last, if no mail of a  *)
(* later one was dropped, and else that later one, which nobody was sent   *)
(* (the user has to ask again).  Not so once a second code was set before  *)
(* the first was mailed, a registration set one that another has           *)
(* overtaken, or a late delete has hit it.                                 *)
(***************************************************************************)
SentCodeCounts ==
  account = "unverified" /\ LastIssued # NoCode /\ codeLives /\ Issuing = {}
  /\ ~crossed /\ ~misled
      => code = LastIssued
=============================================================================
