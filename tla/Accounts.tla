------------------------------- MODULE Accounts -------------------------------
(***************************************************************************)
(* One person's account in the core: password, passkeys, recovery codes,   *)
(* the links an owner issues, sign-ins waiting for their second factor,    *)
(* and sessions.  Handlers of internal/httpapi run side by side; each is a *)
(* request that goes from one statement or transaction of internal/store   *)
(* to the next, and may be cut off between any two (a crash, a lost        *)
(* connection to the database, a client that hangs up).                    *)
(*                                                                         *)
(* Passwords are numbered in the order they were set, 0 the first.  A      *)
(* proof is what a request spends: a recovery code <<"code", set, n>>, a   *)
(* link <<"link", n>>, a challenge <<"challenge", n>>, or nothing.         *)
(***************************************************************************)
EXTENDS Naturals, FiniteSets, Sequences

CONSTANTS
  MaxRequests,     \* bound: requests ever made
  MaxAccountSessions,
  MaxPasskeys,     \* bound: passkeys ever registered
  MaxSets,         \* bound: sets of recovery codes issued
  MaxChallenges,   \* bound: challenges issued
  MaxLinks         \* bound: links issued

ASSUME AccountBounds ==
  /\ MaxRequests \in Nat \ {0} /\ MaxAccountSessions \in Nat \ {0} /\ MaxPasskeys \in Nat
  /\ MaxSets \in Nat \ {0} /\ MaxChallenges \in Nat /\ MaxLinks \in Nat

VARIABLES
  stored,      \* users.password_hash: whose password, under old parameters or not
  chosen,      \* history: the last password set
  keys,        \* webauthn_credentials
  codes,       \* the unused recovery_codes
  links,       \* account_recoveries, in order
  waiting,     \* mfa_pending
  challenges,  \* webauthn_challenges and webauthn_signin_challenges
  sessions,    \* user_sessions, in order
  requests,    \* the handlers under way
  used,        \* how many of each bounded thing there were
  spent, outcomes, cut   \* history: proofs spent, what they brought, and those that
                         \* brought nothing: cut off, or refused for another reason

accountVars == <<stored, chosen, keys, codes, links, waiting, challenges, sessions,
                 requests, used, spent, outcomes, cut>>

Codes      == {"code"} \X (1..MaxSets) \X (1..2)
Proofs     == Codes \cup ({"link"} \X (1..MaxLinks)) \cup ({"challenge"} \X (1..MaxChallenges))
NoProof    == << >>
Passwords  == 0..MaxRequests
Keys       == 1..MaxPasskeys

Waiting    == [n : 1..MaxRequests, pw : Passwords, keys : SUBSET Keys]
Challenge  == [n : 1..MaxChallenges, purpose : {"REGISTER", "LOGIN", "SIGNIN"}]
UserSession == [pw : Passwords, by : {"password", "passkey", "code", "passkey-only"},
                 proof : Proofs \cup {NoProof}, live : BOOLEAN,
                 since : Passwords,          \* the last password set when it was inserted
                 skipped : SUBSET Keys]      \* keys that were there from verification to insertion

AccountRequest ==
  [n : 1..MaxRequests,
   op : {"login", "begin", "assert", "second", "passwordless", "register", "codes", "reset",
         "redeem", "move"},
   at : {"rehash", "count", "ask", "clear", "store", "take", "check", "settle", "spend", "set",
         "mint", "insert", "replace", "reissue", "retire"},
   pw : Passwords, keys : SUBSET Keys, key : Keys \cup {0},
   from : 0..MaxRequests,                    \* the sign-in that waits, or the session
   purpose : {"", "REGISTER", "LOGIN", "SIGNIN"},
   proof : Proofs \cup {NoProof}]

AccountInit ==
  /\ stored \in {[pw |-> 0, old |-> o] : o \in BOOLEAN} /\ chosen = 0
  /\ keys \in {{}, Keys \cap {1}}
  /\ codes = {<<"code", 1, 1>>, <<"code", 1, 2>>}
  /\ links = << >>
  /\ waiting = {} /\ challenges = {} /\ sessions = << >> /\ requests = {}
  /\ used = [requests |-> 0, keys |-> Cardinality(keys), sets |-> 1, challenges |-> 0]
  /\ spent = {} /\ outcomes = {} /\ cut = {}

-----------------------------------------------------------------------------
(* Requests *)

Req(op, at) == [n |-> used.requests + 1, op |-> op, at |-> at, pw |-> 0, keys |-> {}, key |-> 0,
                from |-> 0, purpose |-> "", proof |-> NoProof]

Begin(r) ==
  /\ used.requests < MaxRequests
  /\ requests' = requests \cup {r}
  /\ used' = [used EXCEPT !.requests = @ + 1]

GoOn(r, at) == requests' = (requests \ {r}) \cup {[r EXCEPT !.at = at]}

Done(r) == requests' = requests \ {r}

Authenticated(s) == s \in DOMAIN sessions /\ sessions[s].live

Waits(n) == \E w \in waiting : w.n = n

\* A request that has spent its proof, and not done with it.
Holds(r) == r.proof # NoProof /\ r.at \notin {"take", "spend"}

\* Cut off between two statements: what was committed stays.
CutOff(r) ==
  /\ Done(r)
  /\ cut' = IF Holds(r) THEN cut \cup {r.proof} ELSE cut
  /\ UNCHANGED <<stored, chosen, keys, codes, links, waiting, challenges, sessions, used,
                 spent, outcomes>>

-----------------------------------------------------------------------------
(* Sign-in with a password *)

\* Mutant: every successful check rewrites the hash.
NeedsRehash0(hash) == TRUE

NeedsRehash(hash) == hash.old

\* The row is read and the password verified against it.
handleLogin(pw) ==
  /\ stored.pw = pw
  /\ Begin([Req("login", IF NeedsRehash(stored) THEN "rehash" ELSE "count")
              EXCEPT !.pw = pw, !.keys = keys])
  /\ UNCHANGED <<stored, chosen, keys, codes, links, waiting, challenges, sessions, spent,
                 outcomes, cut>>

\* UpdatePasswordHash, of the password verified before; a failure is logged.
Rehash(r) ==
  /\ r.at = "rehash"
  /\ stored' \in {stored, [pw |-> r.pw, old |-> FALSE]}
  /\ GoOn(r, "count")
  /\ UNCHANGED <<chosen, keys, codes, links, waiting, challenges, sessions, used, spent,
                 outcomes, cut>>

\* Mutant: a failure to count is taken for none.
NeedsFactor0 == FALSE

NeedsFactor == keys # {}

CountPasskeys(r) ==
  /\ r.at = "count"
  /\ GoOn(r, IF NeedsFactor THEN "ask" ELSE "mint")
  /\ UNCHANGED <<stored, chosen, keys, codes, links, waiting, challenges, sessions, used,
                 spent, outcomes, cut>>

CreatePendingMFA(r) ==
  /\ r.at = "ask"
  /\ waiting' = waiting \cup {[n |-> r.n, pw |-> r.pw, keys |-> r.keys]}
  /\ Done(r)
  /\ UNCHANGED <<stored, chosen, keys, codes, links, challenges, sessions, used, spent,
                 outcomes, cut>>

FactorOf(r) ==
  IF r.op = "assert" THEN "passkey"
  ELSE IF r.op = "second" THEN "code"
  ELSE IF r.op = "passwordless" THEN "passkey-only" ELSE "password"

Brings(r, what) == outcomes' = IF r.proof = NoProof THEN outcomes ELSE outcomes \cup {<<r.proof, r.n, what>>}

\* CreateSession: an INSERT that asks nothing of the account.
completeSignIn(r) ==
  /\ r.at = "mint" /\ Len(sessions) < MaxAccountSessions
  /\ sessions' = Append(sessions, [pw |-> r.pw, by |-> FactorOf(r), proof |-> r.proof, live |-> TRUE,
                                   since |-> chosen, skipped |-> r.keys \cap keys])
  /\ Brings(r, "session") /\ Done(r)
  /\ UNCHANGED <<stored, chosen, keys, codes, links, waiting, challenges, used, spent, cut>>

-----------------------------------------------------------------------------
(* Challenges *)

\* For a second factor, a registration or a sign-in without a password.
BeginCeremony(purpose, from) ==
  /\ purpose = "LOGIN" => Waits(from)
  /\ purpose = "REGISTER" => Authenticated(from)
  /\ purpose = "SIGNIN" => from = 0
  /\ Begin([Req("begin", IF purpose = "SIGNIN" THEN "store" ELSE "clear")
              EXCEPT !.from = from, !.purpose = purpose])
  /\ UNCHANGED <<stored, chosen, keys, codes, links, waiting, challenges, sessions, spent,
                 outcomes, cut>>

\* SaveChallenge: a DELETE, then an INSERT.
ClearChallenges(r) ==
  /\ r.at = "clear"
  /\ challenges' = {c \in challenges : c.purpose # r.purpose}
  /\ GoOn(r, "store")
  /\ UNCHANGED <<stored, chosen, keys, codes, links, waiting, sessions, used, spent,
                 outcomes, cut>>

StoreChallenge(r) ==
  /\ r.at = "store" /\ used.challenges < MaxChallenges
  /\ challenges' = challenges \cup {[n |-> used.challenges + 1, purpose |-> r.purpose]}
  /\ used' = [used EXCEPT !.challenges = @ + 1]
  /\ Done(r)
  /\ UNCHANGED <<stored, chosen, keys, codes, links, waiting, sessions, spent, outcomes, cut>>

\* The password verified by a sign-in that waits.
VerifiedBy(n) == (CHOOSE w \in waiting : w.n = n).pw

PurposeOf(op) == IF op = "assert" THEN "LOGIN" ELSE IF op = "register" THEN "REGISTER" ELSE "SIGNIN"

\* The answer to a challenge: which was signed, and with which key.
FinishCeremony(op, from, c, key) ==
  /\ op = "assert" => Waits(from)
  /\ op = "register" => Authenticated(from)
  /\ op = "passwordless" => from = 0
  /\ op = "register" <=> key = 0
  /\ Begin([Req(op, "take") EXCEPT !.from = from, !.key = key, !.proof = <<"challenge", c>>,
              !.purpose = PurposeOf(op), !.pw = IF op = "assert" THEN VerifiedBy(from) ELSE 0])
  /\ UNCHANGED <<stored, chosen, keys, codes, links, waiting, challenges, sessions, spent,
                 outcomes, cut>>

\* DELETE ... RETURNING: every row of the purpose goes.
Keeps(purpose) == {c \in challenges : c.purpose # purpose}

\* Mutant: nobody looks whether a row came back.
TakeChallenge0(r) ==
  /\ r.at = "take"
  /\ challenges' = Keeps(r.purpose) /\ GoOn(r, "check")
  /\ UNCHANGED <<stored, chosen, keys, codes, links, waiting, sessions, used, spent, outcomes, cut>>

\* The first row returned decides; a sign-in without a password names its row.
TakeChallenge(r) ==
  /\ r.at = "take"
  /\ LET rows == {c \in challenges : c.purpose = r.purpose}
         mine == {c \in rows : <<"challenge", c.n>> = r.proof}
     IN
     IF r.purpose = "SIGNIN"
     THEN /\ challenges' = challenges \ mine
          /\ IF mine # {} THEN GoOn(r, "check") /\ spent' = spent \cup {r.proof}
             ELSE Done(r) /\ UNCHANGED spent
     ELSE /\ challenges' = Keeps(r.purpose)
          /\ \/ rows \ mine # {} /\ Done(r) /\ UNCHANGED spent
             \/ rows = {} /\ Done(r) /\ UNCHANGED spent
             \/ mine # {} /\ GoOn(r, "check") /\ spent' = spent \cup {r.proof}
  /\ UNCHANGED <<stored, chosen, keys, codes, links, waiting, sessions, used, outcomes, cut>>

\* The keys are listed, and for a sign-in without a password the codes counted:
\* the account must not have this key as its only way in.
CheckKey(r) ==
  /\ r.at = "check"
  /\ IF r.op = "register" \/ (r.key \in keys /\ (r.op = "assert" \/ Cardinality(keys) >= 2 \/ codes # {}))
     THEN /\ GoOn(r, IF r.op = "register" THEN "insert" ELSE IF r.op = "assert" THEN "settle" ELSE "mint")
          /\ UNCHANGED cut
     ELSE Done(r) /\ cut' = cut \cup {r.proof}
  /\ UNCHANGED <<stored, chosen, keys, codes, links, waiting, challenges, sessions, used,
                 spent, outcomes>>

CreatePasskey(r) ==
  /\ r.at = "insert" /\ used.keys < MaxPasskeys
  /\ keys' = keys \cup {used.keys + 1}
  /\ used' = [used EXCEPT !.keys = @ + 1]
  /\ Brings(r, "key") /\ Done(r)
  /\ UNCHANGED <<stored, chosen, codes, links, waiting, challenges, sessions, spent, cut>>

\* ConsumePendingMFA deletes the row if it is there, and never says; a failure
\* is logged.
ConsumePendingMFA(r) ==
  /\ r.at = "settle"
  /\ waiting' \in {waiting, {w \in waiting : w.n # r.from}}
  /\ GoOn(r, "mint")
  /\ UNCHANGED <<stored, chosen, keys, codes, links, challenges, sessions, used, spent,
                 outcomes, cut>>

-----------------------------------------------------------------------------
(* Recovery *)

handleFinishWithRecoveryCode(from, code) ==
  /\ Waits(from)
  /\ Begin([Req("second", "spend") EXCEPT !.from = from, !.proof = code,
              !.pw = VerifiedBy(from)])
  /\ UNCHANGED <<stored, chosen, keys, codes, links, waiting, challenges, sessions, spent,
                 outcomes, cut>>

handleResetPassword(code) ==
  /\ Begin([Req("reset", "spend") EXCEPT !.proof = code])
  /\ UNCHANGED <<stored, chosen, keys, codes, links, waiting, challenges, sessions, spent,
                 outcomes, cut>>

\* Open, as is the issuer's membership row: which stays when the issuer leaves.
handleRedeemAccountRecovery(l) ==
  /\ links[l] = "open"
  /\ Begin([Req("redeem", "spend") EXCEPT !.proof = <<"link", l>>])
  /\ UNCHANGED <<stored, chosen, keys, codes, links, waiting, challenges, sessions, spent,
                 outcomes, cut>>

\* Mutant: the UPDATE has lost its condition on used_at.
Unspent0(proof) == TRUE

Unspent(proof) == IF proof[1] = "code" THEN proof \in codes ELSE links[proof[2]] = "open"

AfterSpending(r) == GoOn(r, IF r.op = "second" THEN "settle" ELSE "set")

\* One transaction: the proof is spent if it can be, and with a link the
\* passkeys go, and the sign-ins that wait for one.
Spend(r) ==
  /\ r.at = "spend"
  /\ IF Unspent(r.proof)
     THEN /\ spent' = spent \cup {r.proof}
          /\ codes' = codes \ {r.proof}
          /\ IF r.op = "redeem"
             THEN links' = [links EXCEPT ![r.proof[2]] = "used"] /\ keys' = {} /\ waiting' = {}
             ELSE UNCHANGED <<links, keys, waiting>>
          /\ AfterSpending(r)
     ELSE Done(r) /\ UNCHANGED <<spent, codes, links, keys, waiting>>
  /\ UNCHANGED <<stored, chosen, challenges, sessions, used, outcomes, cut>>

\* Mutant: only the browser's sessions.
Revokes0(s) == sessions[s].by # "passkey-only"

Revokes(s) == TRUE

\* A second transaction: the new password, and the end of every session.
setPassword(r) ==
  /\ r.at = "set"
  /\ chosen' = chosen + 1
  /\ stored' = [pw |-> chosen + 1, old |-> FALSE]
  /\ sessions' = [s \in DOMAIN sessions |-> [sessions[s] EXCEPT !.live = @ /\ ~Revokes(s)]]
  /\ Brings(r, "password") /\ Done(r)
  /\ UNCHANGED <<keys, codes, links, waiting, challenges, used, spent, cut>>

\* GetUser does not select the hash, so the current password is never accepted.
handleChangePassword(s) ==
  /\ Authenticated(s)
  /\ UNCHANGED accountVars

handleIssueRecoveryCodes(s) ==
  /\ Authenticated(s)
  /\ Begin([Req("codes", "replace") EXCEPT !.from = s])
  /\ UNCHANGED <<stored, chosen, keys, codes, links, waiting, challenges, sessions, spent,
                 outcomes, cut>>

ReplaceRecoveryCodes(r) ==
  /\ r.at = "replace" /\ used.sets < MaxSets
  /\ codes' = {<<"code", used.sets + 1, i>> : i \in 1..2}
  /\ used' = [used EXCEPT !.sets = @ + 1]
  /\ Done(r)
  /\ UNCHANGED <<stored, chosen, keys, links, waiting, challenges, sessions, spent, outcomes, cut>>

\* An owner's; an open link is superseded.
handleIssueAccountRecovery ==
  /\ Len(links) < MaxLinks
  /\ links' = Append([l \in DOMAIN links |-> IF links[l] = "open" THEN "closed" ELSE links[l]], "open")
  /\ UNCHANGED <<stored, chosen, keys, codes, waiting, challenges, sessions, requests, used,
                 spent, outcomes, cut>>

-----------------------------------------------------------------------------
(* Sessions *)

\* Switching to another organization, or founding one: reissueSessionFor.
handleSwitchOrganization(s) ==
  /\ Authenticated(s)
  /\ Begin([Req("move", "reissue") EXCEPT !.from = s, !.pw = sessions[s].pw])
  /\ UNCHANGED <<stored, chosen, keys, codes, links, waiting, challenges, sessions, spent,
                 outcomes, cut>>

Reissue(r) ==
  /\ r.at = "reissue" /\ Len(sessions) < MaxAccountSessions
  /\ sessions' = Append(sessions, [sessions[r.from] EXCEPT !.live = TRUE, !.since = chosen,
                                     !.proof = NoProof, !.skipped = {}])
  /\ GoOn(r, "retire")
  /\ UNCHANGED <<stored, chosen, keys, codes, links, waiting, challenges, used, spent,
                 outcomes, cut>>

\* RevokeSession; a failure is logged, and both live on (CutOff).
Retire(r) ==
  /\ r.at = "retire"
  /\ sessions' = [sessions EXCEPT ![r.from] = [@ EXCEPT !.live = FALSE]]
  /\ Done(r)
  /\ UNCHANGED <<stored, chosen, keys, codes, links, waiting, challenges, used, spent,
                 outcomes, cut>>

handleLogout(s) ==
  /\ Authenticated(s)
  /\ sessions' = [sessions EXCEPT ![s] = [@ EXCEPT !.live = FALSE]]
  /\ UNCHANGED <<stored, chosen, keys, codes, links, waiting, challenges, requests, used,
                 spent, outcomes, cut>>

handleDeletePasskey(s, k) ==
  /\ Authenticated(s) /\ k \in keys
  /\ keys' = keys \ {k}
  /\ UNCHANGED <<stored, chosen, codes, links, waiting, challenges, sessions, requests, used,
                 spent, outcomes, cut>>

\* Expiry, of a link, a sign-in that waits, or a challenge.
Lapses ==
  \/ /\ \E l \in DOMAIN links : links[l] = "open" /\ links' = [links EXCEPT ![l] = "closed"]
     /\ UNCHANGED <<waiting, challenges>>
  \/ /\ \E w \in waiting : waiting' = waiting \ {w}
     /\ UNCHANGED <<links, challenges>>
  \/ /\ \E c \in challenges : challenges' = challenges \ {c}
     /\ UNCHANGED <<links, waiting>>

TimePasses ==
  Lapses /\ UNCHANGED <<stored, chosen, keys, codes, sessions, requests, used, spent, outcomes, cut>>

-----------------------------------------------------------------------------
Arrives ==
  \/ \E pw \in 0..chosen : handleLogin(pw)
  \/ \E p \in {"LOGIN", "REGISTER", "SIGNIN"}, from \in 0..MaxRequests : BeginCeremony(p, from)
  \/ \E op \in {"assert", "register", "passwordless"}, from \in 0..MaxRequests,
       c \in 1..used.challenges, key \in 0..used.keys : FinishCeremony(op, from, c, key)
  \/ \E code \in Codes :
       /\ code[2] <= used.sets
       /\ \/ handleResetPassword(code)
          \/ \E from \in 1..MaxRequests : handleFinishWithRecoveryCode(from, code)
  \/ \E l \in DOMAIN links : handleRedeemAccountRecovery(l)
  \/ handleIssueAccountRecovery
  \/ \E s \in DOMAIN sessions :
       \/ handleIssueRecoveryCodes(s) \/ handleChangePassword(s) \/ handleSwitchOrganization(s)
       \/ handleLogout(s) \/ (\E k \in Keys : handleDeletePasskey(s, k))

Continues(r) ==
  \/ Rehash(r) \/ CountPasskeys(r) \/ CreatePendingMFA(r) \/ completeSignIn(r)
  \/ ClearChallenges(r) \/ StoreChallenge(r) \/ TakeChallenge(r) \/ CheckKey(r)
  \/ CreatePasskey(r) \/ ConsumePendingMFA(r) \/ Spend(r) \/ setPassword(r)
  \/ ReplaceRecoveryCodes(r) \/ Reissue(r) \/ Retire(r) \/ CutOff(r)

AccountNext ==
  Arrives \/ (\E r \in requests : Continues(r)) \/ TimePasses

AccountSpec == AccountInit /\ [][AccountNext]_accountVars

-----------------------------------------------------------------------------
(* Properties *)

AccountsTypeOK ==
  /\ stored \in [pw : Passwords, old : BOOLEAN] /\ chosen \in Passwords
  /\ keys \subseteq Keys /\ codes \subseteq Codes
  /\ links \in Seq({"open", "used", "closed"})
  /\ waiting \subseteq Waiting /\ challenges \subseteq Challenge
  /\ sessions \in Seq(UserSession) /\ requests \subseteq AccountRequest
  /\ spent \subseteq Proofs /\ cut \subseteq spent

\* Whatever requests race with the same code, link or challenge, one brings
\* one session, key or password (recovery.go:36, recoveries.go:71,
\* passkeys.go:128), although a sign-in that waits may be finished twice.
EachProofOnce ==
  \A a, b \in outcomes : a[1] = b[1] => a = b

\* What was spent brought something, is about to, or is known to have been cut
\* off or refused: the code and the password are two transactions
\* (handlers_recovery.go:183, 268).
NothingVanishes ==
  \A p \in spent :
    p \in cut \/ (\E o \in outcomes : o[1] = p) \/ (\E r \in requests : Holds(r) /\ r.proof = p)

\* Codes, links and challenges keep the promise of SingleUse: spent by the DELETE
\* or UPDATE of one request, which brings one session, key or password of the
\* kind they are good for, or is cut off or refused (recovery.go:36,
\* recoveries.go:71, passkeys.go:128, handlers_recovery.go:183).
Held == {r.proof : r \in {q \in requests : Holds(q)}}
Ledger == INSTANCE SingleUse WITH
  Attempts <- 1..MaxRequests,
  held     <- Held,
  brought  <- outcomes,
  lost     <- cut
ProofsAreSingleUse == Ledger!Spec

\* A password alone never got past a passkey that was registered when it was
\* verified and still is when the session begins.
NoKeySkipped ==
  \A s \in DOMAIN sessions : sessions[s].by = "password" => sessions[s].skipped = {}

\* A session that is alive was inserted after the password last changed
\* (handlers_recovery.go:268): only a request that overlapped the change, and
\* inserts after it, escapes.
CutOffByChange ==
  \A s \in DOMAIN sessions : sessions[s].live => sessions[s].since = chosen

\* The password last set is the one stored, unless a sign-in upgraded the hash
\* it had verified before.
OnlyAnUpgradeOverwrites ==
  stored.pw # chosen => stored.pw = 0 /\ ~stored.old
=============================================================================
