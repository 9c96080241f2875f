----------------------------- MODULE AccountsProofs -----------------------------
(***************************************************************************)
(* Theorems of Accounts, for any number of requests, sessions, passkeys,   *)
(* codes, challenges and links: in whatever order the statements of        *)
(* concurrent handlers run, and wherever one of them is cut off.           *)
(***************************************************************************)
EXTENDS Accounts, FiniteSetTheorems, SequenceTheorems, TLAPS

-----------------------------------------------------------------------------
(* Types, without the bounds *)

Proof == ({"code"} \X Nat \X Nat) \cup ({"link"} \X Nat) \cup ({"challenge"} \X Nat)

Ops == {"login", "begin", "assert", "second", "passwordless", "register", "codes", "reset",
        "redeem", "move"}
Ats == {"rehash", "count", "ask", "clear", "store", "take", "check", "settle", "spend", "set",
        "mint", "insert", "replace", "reissue", "retire"}

Rec == [n : Nat, op : Ops, at : Ats, pw : Nat, keys : SUBSET Nat, key : Nat, from : Nat,
        purpose : {"", "REGISTER", "LOGIN", "SIGNIN"}, proof : Proof \cup {NoProof}]

Row == [pw : Nat, by : {"password", "passkey", "code", "passkey-only"},
        proof : Proof \cup {NoProof}, live : BOOLEAN, since : Nat, skipped : SUBSET Nat]

Wait  == [n : Nat, pw : Nat, keys : SUBSET Nat]
Asked == [n : Nat, purpose : {"", "REGISTER", "LOGIN", "SIGNIN"}]
Count == [requests : Nat, keys : Nat, sets : Nat, challenges : Nat]

RowsTyped ==
  /\ stored \in [pw : Nat, old : BOOLEAN] /\ chosen \in Nat /\ used \in Count
  /\ keys \subseteq Nat /\ codes \subseteq {"code"} \X Nat \X Nat
  /\ links \in Seq({"open", "used", "closed"})
  /\ waiting \subseteq Wait /\ challenges \subseteq Asked

Typed ==
  /\ RowsTyped /\ sessions \in Seq(Row) /\ requests \subseteq Rec
  /\ spent \subseteq Proof

-----------------------------------------------------------------------------
(* The inductive invariant *)

\* Where a request is says what it is, what it spends, and what it knows.
RequestFits(r) ==
  /\ r.at \in {"rehash", "count", "ask"} => r.op = "login"
  /\ r.at \in {"take", "check"} => r.op \in {"register", "assert", "passwordless"}
  /\ r.at = "settle" => r.op \in {"assert", "second"}
  /\ r.at = "spend" => r.op \in {"second", "reset", "redeem"}
  /\ r.at = "mint" => r.op \in {"login", "assert", "second", "passwordless"}
  /\ r.at \in {"clear", "store", "replace", "reissue", "retire"} => r.op \in {"begin", "codes", "move"}
  /\ r.op \in {"login", "begin", "codes", "move"} => r.proof = NoProof
  /\ r.at \in {"take", "spend"} => r.proof # NoProof
  /\ r.at = "take" => r.proof[1] = "challenge" /\ r.proof[2] <= used.challenges
  /\ r.at = "spend" => r.proof[1] = (IF r.op = "redeem" THEN "link" ELSE "code")
  /\ r.at = "spend" /\ r.op = "redeem" => r.proof[2] \in DOMAIN links
  /\ r.at = "spend" /\ r.op # "redeem" => r.proof[2] <= used.sets
  /\ r.at = "rehash" => r.pw = 0
  /\ r.at \in {"reissue", "retire"} => r.from \in DOMAIN sessions
  /\ \A k \in r.keys : k <= used.keys
  /\ r.at = "mint" /\ r.op = "login" => r.keys \cap keys = {}

\* What has been spent cannot be spent again.
Gone(p) ==
  /\ p \notin codes
  /\ p[1] = "code" => p[2] <= used.sets
  /\ p[1] = "link" => p[2] \in DOMAIN links /\ links[p[2]] # "open"
  /\ p[1] = "challenge" => p[2] <= used.challenges /\ \A c \in challenges : c.n # p[2]

Brought(p) == \E o \in outcomes : o[1] = p

\* Every proof spent is held by one request, or has brought one thing, or was cut.
ProofsFit ==
  /\ \A a, b \in requests : Holds(a) /\ Holds(b) /\ a.proof = b.proof => a = b
  /\ \A r \in requests : Holds(r) => r.proof \in spent /\ ~Brought(r.proof)
  /\ \A o \in outcomes : o[1] \in spent
  /\ EachProofOnce
  /\ \A p \in spent : p \in cut \/ Brought(p) \/ \E r \in requests : Holds(r) /\ r.proof = p

\* Challenges and keys are numbered apart.
Numbered ==
  /\ \A c \in challenges : c.n <= used.challenges
  /\ \A c, d \in challenges : c.n = d.n => c = d
  /\ \A k \in keys : k <= used.keys

\* Only the first password was ever stored under old parameters.
PasswordFits == (stored.old => stored.pw = 0) /\ OnlyAnUpgradeOverwrites

IInv ==
  /\ Typed /\ Numbered /\ PasswordFits
  /\ \A r \in requests : RequestFits(r)
  /\ \A p \in spent : Gone(p)
  /\ ProofsFit /\ NoKeySkipped /\ CutOffByChange

-----------------------------------------------------------------------------
(* The initial states *)

LEMMA InitIInv == AccountInit => IInv
<1> SUFFICES ASSUME AccountInit PROVE IInv
  OBVIOUS
<1>1. /\ stored.pw = 0 /\ chosen = 0 /\ requests = {} /\ challenges = {} /\ spent = {} /\ outcomes = {}
      /\ sessions = << >> /\ links = << >> /\ waiting = {}
      /\ used = [requests |-> 0, keys |-> Cardinality(keys), sets |-> 1, challenges |-> 0]
      /\ codes = {<<"code", 1, 1>>, <<"code", 1, 2>>}
      /\ stored \in [pw : Nat, old : BOOLEAN]
  BY DEF AccountInit
<1>2. keys \subseteq {1} /\ Cardinality(keys) \in Nat /\ \A k \in keys : k <= Cardinality(keys)
  <2>1. keys = {} \/ keys = {1}
    BY DEF AccountInit
  <2> QED
    <3>1. CASE keys = {}
      BY <3>1, FS_EmptySet
    <3>2. CASE keys = {1}
      <4>1. Cardinality({1}) = 1
        BY FS_Singleton
      <4> QED
        BY <3>2, <4>1
    <3> QED
      BY <2>1, <3>1, <3>2
<1>3. Typed
  <2>1. used \in Count
    BY <1>1, <1>2 DEF Count
  <2>2. codes \subseteq {"code"} \X Nat \X Nat
    BY <1>1
  <2> QED
    BY <1>1, <1>2, <2>1, <2>2 DEF Typed, RowsTyped
<1>4. Numbered
  BY <1>1, <1>2 DEF Numbered
<1>5. PasswordFits
  BY <1>1 DEF PasswordFits, OnlyAnUpgradeOverwrites
<1>6. ProofsFit
  BY <1>1 DEF ProofsFit, EachProofOnce
<1>7. NoKeySkipped /\ CutOffByChange
  BY <1>1 DEF NoKeySkipped, CutOffByChange
<1> QED
  BY <1>1, <1>3, <1>4, <1>5, <1>6, <1>7 DEF IInv

-----------------------------------------------------------------------------
(* What a step may do to a request, as long as the rest only grows *)

\* Numbers go up; rows of links and sessions stay, and a link is not opened
\* again; keys, codes and challenges are those there were, or have new numbers.
Grows ==
  /\ used.sets <= used'.sets /\ used.challenges <= used'.challenges /\ used.keys <= used'.keys
  /\ DOMAIN links \subseteq DOMAIN links' /\ DOMAIN sessions \subseteq DOMAIN sessions'
  /\ \A l \in DOMAIN links : links[l] # "open" => links'[l] # "open"
  /\ \A k \in keys' : k \in keys \/ k > used.keys
  /\ \A c \in codes' : c \in codes \/ c[2] > used.sets
  /\ \A c \in challenges' : c \in challenges \/ c.n > used.challenges

LEMMA FitStays ==
  ASSUME Typed, Typed', Grows, NEW r \in Rec, RequestFits(r)
  PROVE  RequestFits(r)'
<1>1. /\ used.sets \in Nat /\ used'.sets \in Nat /\ used.challenges \in Nat /\ used'.challenges \in Nat
      /\ used.keys \in Nat /\ used'.keys \in Nat
  BY DEF Typed, RowsTyped, Count
<1>2. r.proof \in Proof \cup {NoProof} /\ r.keys \subseteq Nat /\ r.at \in Ats /\ r.op \in Ops
  BY DEF Rec
<1>3. (\A k \in r.keys : k <= used.keys) => (\A k \in r.keys : k <= used'.keys)
  BY <1>1, <1>2 DEF Grows
<1>4. r.at = "mint" /\ r.op = "login" => r.keys \cap keys' = {}
  BY <1>1, <1>2 DEF Grows, RequestFits
<1>5. r.at = "take" => r.proof[2] <= used'.challenges
  <2> SUFFICES ASSUME r.at = "take" PROVE r.proof[2] <= used'.challenges
    OBVIOUS
  <2>1. r.proof \in Proof /\ r.proof[1] = "challenge" /\ r.proof[2] <= used.challenges
    BY <1>2 DEF RequestFits
  <2>2. r.proof[2] \in Nat
    BY <2>1 DEF Proof
  <2> QED
    BY <1>1, <2>1, <2>2 DEF Grows
<1>6. r.at = "spend" /\ r.op # "redeem" => r.proof[2] <= used'.sets
  <2> SUFFICES ASSUME r.at = "spend", r.op # "redeem" PROVE r.proof[2] <= used'.sets
    OBVIOUS
  <2>1. r.proof \in Proof /\ r.proof[1] = "code" /\ r.proof[2] <= used.sets
    BY <1>2 DEF RequestFits
  <2>2. r.proof[2] \in Nat
    BY <2>1 DEF Proof
  <2> QED
    BY <1>1, <2>1, <2>2 DEF Grows
<1> QED
  BY <1>3, <1>4, <1>5, <1>6 DEF RequestFits, Grows

LEMMA Moved ==
  ASSUME NEW r \in Rec, NEW at \in Ats
  PROVE  LET d == [r EXCEPT !.at = at] IN
         /\ d \in Rec /\ d.at = at /\ d.n = r.n /\ d.op = r.op /\ d.pw = r.pw /\ d.keys = r.keys
         /\ d.from = r.from /\ d.proof = r.proof
BY DEF Rec

-----------------------------------------------------------------------------
(* What a step may do to the proofs *)

\* A request that holds nothing arrives, or leaves.
LEMMA ProofsArrive ==
  ASSUME ProofsFit, NEW d, ~Holds(d), requests' = requests \cup {d},
         spent' = spent, outcomes' = outcomes, cut' = cut
  PROVE  ProofsFit'
BY DEF ProofsFit, EachProofOnce, Brought, Holds

LEMMA ProofsLeave ==
  ASSUME ProofsFit, NEW r \in requests, ~Holds(r), Done(r),
         spent' = spent, outcomes' = outcomes, cut' = cut
  PROVE  ProofsFit'
BY DEF ProofsFit, EachProofOnce, Brought, Holds, Done

\* A request that holds its proof goes on with it.
LEMMA ProofsGoOn ==
  ASSUME ProofsFit, NEW r \in requests, NEW d, d.proof = r.proof, Holds(r) <=> Holds(d),
         requests' = (requests \ {r}) \cup {d}, spent' = spent, outcomes' = outcomes, cut' = cut
  PROVE  ProofsFit'
<1>1. \A a \in requests' : Holds(a) => a = d \/ (a \in requests /\ a # r)
  OBVIOUS
<1>2. \A a, b \in requests' : Holds(a) /\ Holds(b) /\ a.proof = b.proof => a = b
  BY <1>1 DEF ProofsFit
<1>3. \A a \in requests' : Holds(a) => a.proof \in spent /\ ~Brought(a.proof)
  BY <1>1 DEF ProofsFit
<1>4. \A p \in spent : (\E a \in requests : Holds(a) /\ a.proof = p) => \E a \in requests' : Holds(a) /\ a.proof = p
  OBVIOUS
<1>5. \A p : Brought(p)' <=> Brought(p)
  BY DEF Brought
<1> QED
  BY <1>2, <1>3, <1>4, <1>5 DEF ProofsFit, EachProofOnce, Holds

\* What was not spent is, and is held.
LEMMA ProofsSpend ==
  ASSUME ProofsFit, NEW r \in requests, NEW d, d.proof = r.proof, ~Holds(r), Holds(d),
         r.proof \notin spent, spent' = spent \cup {r.proof},
         requests' = (requests \ {r}) \cup {d}, outcomes' = outcomes, cut' = cut
  PROVE  ProofsFit'
<1>1. \A a \in requests' : Holds(a) => a = d \/ (a \in requests /\ a.proof \in spent)
  BY DEF ProofsFit
<1>2. \A a, b \in requests' : Holds(a) /\ Holds(b) /\ a.proof = b.proof => a = b
  BY <1>1 DEF ProofsFit
<1>3. ~Brought(r.proof)
  BY DEF ProofsFit, Brought
<1>4. \A a \in requests' : Holds(a) => a.proof \in spent' /\ ~Brought(a.proof)
  BY <1>1, <1>3 DEF ProofsFit
<1>5. \A p \in spent : (\E a \in requests : Holds(a) /\ a.proof = p) => \E a \in requests' : Holds(a) /\ a.proof = p
  OBVIOUS
<1>6. \A p : Brought(p)' <=> Brought(p)
  BY DEF Brought
<1> QED
  BY <1>2, <1>4, <1>5, <1>6 DEF ProofsFit, EachProofOnce, Holds

\* A request ends, and brings what its proof was spent for, if it had one.
LEMMA ProofsBring ==
  ASSUME ProofsFit, NEW r \in requests, r.at \notin {"take", "spend"}, NEW what, Brings(r, what),
         Done(r), spent' = spent, cut' = cut
  PROVE  ProofsFit'
<1>1. CASE r.proof = NoProof
  <2>1. ~Holds(r) /\ outcomes' = outcomes
    BY <1>1 DEF Brings, Holds
  <2> QED
    BY <2>1, ProofsLeave
<1>2. CASE r.proof # NoProof
  <2> DEFINE new == <<r.proof, r.n, what>>
  <2>1. Holds(r) /\ r.proof \in spent /\ ~Brought(r.proof)
    BY <1>2 DEF Holds, ProofsFit
  <2>2. outcomes' = outcomes \cup {new} /\ new[1] = r.proof
    BY <1>2 DEF Brings
  <2> HIDE DEF new
  <2>3. requests' = requests \ {r}
    BY DEF Done
  <2>4. \A a, b \in outcomes' : a[1] = b[1] => a = b
    BY <2>1, <2>2 DEF ProofsFit, EachProofOnce, Brought
  <2>5. \A a \in requests' : Holds(a) => a \in requests /\ a.proof # r.proof
    BY <2>1, <2>3 DEF ProofsFit
  <2>6. \A a \in requests' : Holds(a) => a.proof \in spent /\ ~Brought(a.proof)'
    BY <2>2, <2>5 DEF ProofsFit, Brought
  <2>7. \A p \in spent : p \in cut \/ Brought(p)' \/ \E a \in requests' : Holds(a) /\ a.proof = p
    BY <2>2, <2>3 DEF ProofsFit, Brought
  <2>8. \A o \in outcomes' : o[1] \in spent
    BY <2>1, <2>2 DEF ProofsFit
  <2> QED
    BY <2>3, <2>4, <2>5, <2>6, <2>7, <2>8 DEF ProofsFit, EachProofOnce, Holds
<1> QED
  BY <1>1, <1>2

\* A request is cut off with what it had spent, if anything.
LEMMA ProofsCut ==
  ASSUME ProofsFit, NEW r \in requests, Done(r), spent' = spent, outcomes' = outcomes,
         cut \subseteq cut', Holds(r) => r.proof \in cut'
  PROVE  ProofsFit'
<1>1. requests' = requests \ {r}
  BY DEF Done
<1>2. \A p \in spent : p \in cut' \/ Brought(p) \/ \E a \in requests' : Holds(a) /\ a.proof = p
  BY <1>1 DEF ProofsFit
<1>3. \A p : Brought(p)' <=> Brought(p)
  BY DEF Brought
<1> QED
  BY <1>1, <1>2, <1>3 DEF ProofsFit, EachProofOnce, Holds

\* What has been spent stays spent.
LEMMA GoneStays ==
  ASSUME Typed, Typed', Grows, NEW p \in Proof, Gone(p)
  PROVE  Gone(p)'
<1>1. /\ used.sets \in Nat /\ used'.sets \in Nat /\ used.challenges \in Nat /\ used'.challenges \in Nat
  BY DEF Typed, RowsTyped, Count
<1>2. CASE p \in {"code"} \X Nat \X Nat
  <2>1. p[1] = "code" /\ p[2] \in Nat
    BY <1>2
  <2>2. p \notin codes /\ p[2] <= used.sets
    BY <2>1 DEF Gone
  <2>3. p \notin codes' /\ p[2] <= used'.sets
    BY <1>1, <2>1, <2>2 DEF Grows
  <2> QED
    BY <2>1, <2>3 DEF Gone
<1>3. CASE p \in {"link"} \X Nat
  <2>1. p[1] = "link"
    BY <1>3
  <2>2. p \notin codes'
    <3>1. codes' \subseteq {"code"} \X Nat \X Nat
      BY DEF Typed, RowsTyped
    <3>2. \A c \in codes' : c[1] = "code"
      BY <3>1
    <3> QED
      BY <2>1, <3>2
  <2> QED
    BY <2>1, <2>2 DEF Gone, Grows
<1>4. CASE p \in {"challenge"} \X Nat
  <2>1. p[1] = "challenge" /\ p[2] \in Nat
    BY <1>4
  <2>2. p \notin codes'
    <3>1. codes' \subseteq {"code"} \X Nat \X Nat
      BY DEF Typed, RowsTyped
    <3>2. \A c \in codes' : c[1] = "code"
      BY <3>1
    <3> QED
      BY <2>1, <3>2
  <2>3. p[2] <= used.challenges /\ \A c \in challenges : c.n # p[2]
    BY <2>1 DEF Gone
  <2>4. p[2] <= used'.challenges /\ \A c \in challenges' : c.n # p[2]
    BY <1>1, <2>1, <2>3 DEF Grows
  <2> QED
    BY <2>1, <2>2, <2>4 DEF Gone
<1> QED
  BY <1>2, <1>3, <1>4 DEF Proof

-----------------------------------------------------------------------------
(* Steps of the same shape *)

LEMMA SessionsStay ==
  ASSUME NoKeySkipped, CutOffByChange, sessions' = sessions, chosen' = chosen
  PROVE  NoKeySkipped' /\ CutOffByChange'
BY DEF NoKeySkipped, CutOffByChange

LEMMA PasswordStays ==
  ASSUME PasswordFits, stored' = stored, chosen' = chosen
  PROVE  PasswordFits'
BY DEF PasswordFits, OnlyAnUpgradeOverwrites

LEMMA NumbersStay ==
  ASSUME Numbered, challenges' \subseteq challenges, keys' \subseteq keys,
         used'.keys = used.keys, used'.challenges = used.challenges
  PROVE  Numbered'
BY DEF Numbered

\* What every step has to show.
LEMMA Step ==
  ASSUME IInv, Typed', Grows, Numbered', PasswordFits', ProofsFit', NoKeySkipped', CutOffByChange',
         \A r \in requests' : r \in requests \/ RequestFits(r)',
         \A p \in spent' : p \in spent \/ Gone(p)'
  PROVE  IInv'
<1>1. ASSUME NEW r \in requests PROVE RequestFits(r)'
  BY <1>1, FitStays DEF IInv, Typed
<1>2. ASSUME NEW p \in spent PROVE Gone(p)'
  BY <1>2, GoneStays DEF IInv, Typed
<1> QED
  BY <1>1, <1>2 DEF IInv

\* A request arrives, and nothing else happens.
LEMMA BeginStep ==
  ASSUME IInv, NEW d \in Rec, RequestFits(d),
         d.at \in {"rehash", "count", "clear", "store", "take", "spend", "replace", "reissue"},
         Begin(d),
         UNCHANGED <<stored, chosen, keys, codes, links, waiting, challenges, sessions, spent, outcomes, cut>>
  PROVE  IInv'
<1>1. used \in Count /\ used' = [used EXCEPT !.requests = @ + 1] /\ requests' = requests \cup {d}
  BY DEF Begin, IInv, Typed, RowsTyped
<1>2. /\ used' \in Count /\ used'.sets = used.sets /\ used'.keys = used.keys
      /\ used'.challenges = used.challenges
      /\ used.sets \in Nat /\ used.keys \in Nat /\ used.challenges \in Nat
  BY <1>1 DEF Count
<1>3. Typed'
  BY <1>1, <1>2 DEF IInv, Typed, RowsTyped
<1>4. Grows
  BY <1>2 DEF Grows
<1>5. RequestFits(d)'
  BY <1>3, <1>4, FitStays DEF IInv
<1>6. ~Holds(d)
  BY DEF Holds, RequestFits
<1>7. ProofsFit'
  BY <1>1, <1>6, ProofsArrive DEF IInv
<1>8. Numbered' /\ PasswordFits' /\ NoKeySkipped' /\ CutOffByChange'
  BY <1>2, NumbersStay, PasswordStays, SessionsStay DEF IInv
<1> QED
  BY <1>1, <1>3, <1>4, <1>5, <1>7, <1>8, Step

\* A request goes on, and what waits may be fewer.
LEMMA GoOnStep ==
  ASSUME IInv, NEW r \in requests, NEW at \in Ats, GoOn(r, at),
         at \notin {"take", "spend"}, r.at \notin {"take", "spend"},
         RequestFits([r EXCEPT !.at = at]),
         UNCHANGED <<chosen, keys, codes, links, sessions, used, spent, outcomes, cut>>,
         stored' \in [pw : Nat, old : BOOLEAN], PasswordFits',
         waiting' \subseteq waiting, challenges' \subseteq challenges
  PROVE  IInv'
<1> DEFINE d == [r EXCEPT !.at = at]
<1>1. requests' = (requests \ {r}) \cup {d}
  BY DEF GoOn
<1>2. r \in Rec
  BY DEF IInv, Typed
<1>3. d \in Rec /\ d.at = at /\ d.proof = r.proof
  BY <1>2, Moved
<1>4. RequestFits(d)
  OBVIOUS
<1> HIDE DEF d
<1>5. Typed'
  BY <1>1, <1>3 DEF IInv, Typed, RowsTyped
<1>6. used \in Count /\ used.sets <= used.sets /\ used.keys <= used.keys /\ used.challenges <= used.challenges
  BY DEF Count, IInv, Typed, RowsTyped
<1>7. Grows
  BY <1>6 DEF Grows
<1>8. RequestFits(d)'
  BY <1>3, <1>4, <1>5, <1>7, FitStays DEF IInv
<1>9. ProofsFit'
  BY <1>1, <1>3, ProofsGoOn DEF IInv, Holds
<1>10. Numbered' /\ NoKeySkipped' /\ CutOffByChange'
  BY NumbersStay, SessionsStay DEF IInv
<1> QED
  BY <1>1, <1>5, <1>7, <1>8, <1>9, <1>10, Step

\* A request ends.
LEMMA DoneStep ==
  ASSUME IInv, NEW r \in requests, Done(r), RowsTyped', sessions' \in Seq(Row), Grows,
         Numbered', PasswordFits', ProofsFit', NoKeySkipped', CutOffByChange', spent' = spent
  PROVE  IInv'
<1>1. requests' = requests \ {r}
  BY DEF Done
<1>2. Typed'
  BY <1>1 DEF IInv, Typed
<1> QED
  BY <1>1, <1>2, Step

\* What does not concern the requests.
LEMMA QuietStep ==
  ASSUME IInv, RowsTyped', sessions' \in Seq(Row), Grows, Numbered', PasswordFits', NoKeySkipped',
         CutOffByChange', requests' = requests, spent' = spent, outcomes' = outcomes, cut' = cut
  PROVE  IInv'
<1>1. Typed'
  BY DEF IInv, Typed
<1>2. ProofsFit'
  BY DEF IInv, ProofsFit, EachProofOnce, Brought, Holds
<1> QED
  BY <1>1, <1>2, Step

-----------------------------------------------------------------------------
(* Requests that arrive *)

LEMMA NewRequest ==
  ASSUME IInv, NEW op \in Ops, NEW at \in Ats
  PROVE  /\ Req(op, at) \in Rec
         /\ Req(op, at).op = op /\ Req(op, at).at = at /\ Req(op, at).pw = 0 /\ Req(op, at).keys = {}
         /\ Req(op, at).proof = NoProof
<1>1. used.requests + 1 \in Nat
  BY DEF IInv, Typed, RowsTyped, Count
<1> QED
  BY <1>1 DEF Req, Rec

\* Proofs have the shape their name says.
LEMMA ProofShapes ==
  /\ \A n \in Nat : /\ <<"challenge", n>> \in Proof /\ <<"challenge", n>> # NoProof
                    /\ <<"challenge", n>>[1] = "challenge" /\ <<"challenge", n>>[2] = n
                    /\ <<"link", n>> \in Proof /\ <<"link", n>> # NoProof
                    /\ <<"link", n>>[1] = "link" /\ <<"link", n>>[2] = n
  /\ \A code \in Codes : code \in Proof /\ code # NoProof /\ code[1] = "code" /\ code[2] \in Nat
<1>1. Codes \subseteq {"code"} \X Nat \X Nat
  BY AccountBounds DEF Codes
<1>2. \A n \in Nat : <<"challenge", n>> # << >> /\ <<"link", n>> # << >>
  <2> SUFFICES ASSUME NEW n \in Nat PROVE <<"challenge", n>> # << >> /\ <<"link", n>> # << >>
    OBVIOUS
  <2>1. Len(<<"challenge", n>>) = 2 /\ Len(<<"link", n>>) = 2 /\ Len(<< >>) = 0
    OBVIOUS
  <2> QED
    BY <2>1
<1>3. \A code \in {"code"} \X Nat \X Nat : code # << >>
  <2> SUFFICES ASSUME NEW i \in Nat, NEW j \in Nat PROVE <<"code", i, j>> # << >>
    OBVIOUS
  <2>1. Len(<<"code", i, j>>) = 3 /\ Len(<< >>) = 0
    OBVIOUS
  <2> QED
    BY <2>1
<1>4. \A code \in {"code"} \X Nat \X Nat : code \in Proof /\ code[1] = "code" /\ code[2] \in Nat
  BY DEF Proof
<1> QED
  BY <1>1, <1>2, <1>3, <1>4 DEF Proof, NoProof

LEMMA LoginArrives == ASSUME IInv, NEW pw \in Nat, handleLogin(pw) PROVE IInv'
<1>1. PICK at \in {"rehash", "count"} :
        /\ at = "rehash" => stored.old
        /\ Begin([Req("login", at) EXCEPT !.pw = pw, !.keys = keys])
  BY DEF handleLogin, NeedsRehash
<1>2. at \in Ats /\ "login" \in Ops
  BY DEF Ats, Ops
<1>3. keys \subseteq Nat /\ \A k \in keys : k <= used.keys
  BY DEF IInv, Typed, RowsTyped, Numbered
<1>4. PICK d : d = [Req("login", at) EXCEPT !.pw = pw, !.keys = keys]
  OBVIOUS
<1>5. d \in Rec /\ d.op = "login" /\ d.at = at /\ d.pw = pw /\ d.keys = keys /\ d.proof = NoProof
  <2>1. PICK q \in Rec : q = Req("login", at) /\ q.op = "login" /\ q.at = at /\ q.keys = {} /\ q.proof = NoProof
    BY <1>2, <1>3, NewRequest
  <2>2. d = [q EXCEPT !.pw = pw, !.keys = keys]
    BY <2>1, <1>4
  <2>3. d \in Rec
    BY <2>2, <1>2, <1>3, Zenon DEF Rec
  <2> QED
    BY <2>1, <2>2, <2>3 DEF Rec
<1>6. at = "rehash" => pw = 0
  BY <1>1 DEF handleLogin, IInv, PasswordFits
<1>7. RequestFits(d)
  BY <1>3, <1>5, <1>6 DEF RequestFits
<1> QED
  BY <1>1, <1>4, <1>5, <1>7, BeginStep DEF handleLogin

LEMMA CeremonyBegins ==
  ASSUME IInv, NEW p \in {"LOGIN", "REGISTER", "SIGNIN"}, NEW from \in Nat, BeginCeremony(p, from)
  PROVE  IInv'
<1>1. PICK at \in {"clear", "store"} : Begin([Req("begin", at) EXCEPT !.from = from, !.purpose = p])
  BY DEF BeginCeremony
<1>2. at \in Ats /\ "begin" \in Ops
  BY DEF Ats, Ops
<1>3. PICK d : d = [Req("begin", at) EXCEPT !.from = from, !.purpose = p]
  OBVIOUS
<1>4. d \in Rec /\ d.op = "begin" /\ d.at = at /\ d.keys = {} /\ d.proof = NoProof
  <2>1. PICK q \in Rec : q = Req("begin", at) /\ q.op = "begin" /\ q.at = at /\ q.keys = {} /\ q.proof = NoProof
    BY <1>2, NewRequest
  <2>2. d = [q EXCEPT !.from = from, !.purpose = p]
    BY <2>1, <1>3
  <2>3. d \in Rec
    BY <2>2, <1>2, Zenon DEF Rec
  <2> QED
    BY <2>1, <2>2, <2>3 DEF Rec
<1>5. RequestFits(d)
  BY <1>4 DEF RequestFits
<1> QED
  BY <1>1, <1>3, <1>4, <1>5, BeginStep DEF BeginCeremony

LEMMA VerifiedIsNat == ASSUME IInv, NEW n, Waits(n) PROVE VerifiedBy(n) \in Nat
<1>1. PICK w \in waiting : w.n = n
  BY DEF Waits
<1>2. (CHOOSE v \in waiting : v.n = n) \in waiting
  BY <1>1
<1>3. waiting \subseteq Wait
  BY DEF IInv, Typed, RowsTyped
<1> QED
  BY <1>2, <1>3 DEF VerifiedBy, Wait

LEMMA CeremonyFinishes ==
  ASSUME IInv, NEW op \in {"assert", "register", "passwordless"}, NEW from \in Nat,
         NEW c \in 1..used.challenges, NEW key \in Nat, FinishCeremony(op, from, c, key)
  PROVE  IInv'
<1>1. c \in Nat /\ c <= used.challenges
  BY DEF IInv, Typed, RowsTyped, Count
<1>2. PICK pw : pw = IF op = "assert" THEN VerifiedBy(from) ELSE 0
  OBVIOUS
<1>3. pw \in Nat
  BY <1>2, VerifiedIsNat DEF FinishCeremony
<1>4. PICK d : d = [Req(op, "take") EXCEPT !.from = from, !.key = key, !.proof = <<"challenge", c>>,
                      !.purpose = PurposeOf(op), !.pw = pw]
  OBVIOUS
<1>5. op \in Ops /\ "take" \in Ats /\ PurposeOf(op) \in {"", "REGISTER", "LOGIN", "SIGNIN"}
  BY DEF Ops, Ats, PurposeOf
<1>6. <<"challenge", c>> \in Proof /\ <<"challenge", c>> # NoProof
      /\ <<"challenge", c>>[1] = "challenge" /\ <<"challenge", c>>[2] = c
  BY <1>1, ProofShapes
<1>7. d \in Rec /\ d.op = op /\ d.at = "take" /\ d.keys = {} /\ d.proof = <<"challenge", c>>
  <2>1. PICK q \in Rec : q = Req(op, "take") /\ q.op = op /\ q.at = "take" /\ q.keys = {} /\ q.proof = NoProof
    BY ZenonT(30), <1>3, <1>5, <1>6, NewRequest
  <2>2. d = [q EXCEPT !.from = from, !.key = key, !.proof = <<"challenge", c>>, !.purpose = PurposeOf(op), !.pw = pw]
    BY <2>1, <1>4
  <2>3. d \in Rec
    BY <2>2, <1>3, <1>5, <1>6, Zenon DEF Rec
  <2> QED
    BY <2>1, <2>2, <2>3 DEF Rec
<1>8. RequestFits(d)
  BY <1>1, <1>6, <1>7 DEF RequestFits
<1>9. Begin(d)
  BY <1>2, <1>4 DEF FinishCeremony
<1> QED
  BY <1>7, <1>8, <1>9, BeginStep DEF FinishCeremony

\* A request to spend a code or a link.
LEMMA SpenderFits ==
  ASSUME IInv, NEW op \in {"second", "reset", "redeem"}, NEW proof \in Proof, proof # NoProof,
         proof[1] = (IF op = "redeem" THEN "link" ELSE "code"),
         op = "redeem" => proof[2] \in DOMAIN links,
         op # "redeem" => proof[2] <= used.sets,
         NEW d, d \in Rec, d.op = op, d.at = "spend", d.keys = {}, d.proof = proof
  PROVE  RequestFits(d)
BY DEF RequestFits

LEMMA SecondFactorArrives ==
  ASSUME IInv, NEW from \in Nat, NEW code \in Codes, code[2] <= used.sets,
         handleFinishWithRecoveryCode(from, code)
  PROVE  IInv'
<1>1. PICK pw : pw = VerifiedBy(from)
  OBVIOUS
<1>2. pw \in Nat
  BY <1>1, VerifiedIsNat DEF handleFinishWithRecoveryCode
<1>3. PICK d : d = [Req("second", "spend") EXCEPT !.from = from, !.proof = code, !.pw = pw]
  OBVIOUS
<1>4. "second" \in Ops /\ "spend" \in Ats
  BY DEF Ops, Ats
<1>5. code \in Proof /\ code # NoProof /\ code[1] = "code"
  BY ProofShapes
<1>6. d \in Rec /\ d.op = "second" /\ d.at = "spend" /\ d.keys = {} /\ d.proof = code
  <2>1. PICK q \in Rec : q = Req("second", "spend") /\ q.op = "second" /\ q.at = "spend" /\ q.keys = {} /\ q.proof = NoProof
    BY <1>2, <1>4, <1>5, NewRequest
  <2>2. d = [q EXCEPT !.from = from, !.proof = code, !.pw = pw]
    BY <2>1, <1>3
  <2>3. d \in Rec
    BY <2>2, <1>2, <1>4, <1>5, Zenon DEF Rec
  <2> QED
    BY <2>1, <2>2, <2>3 DEF Rec
<1>7. RequestFits(d)
  BY <1>5, <1>6, SpenderFits
<1>8. Begin(d)
  BY <1>1, <1>3 DEF handleFinishWithRecoveryCode
<1> QED
  BY <1>6, <1>7, <1>8, BeginStep DEF handleFinishWithRecoveryCode

LEMMA ResetArrives ==
  ASSUME IInv, NEW code \in Codes, code[2] <= used.sets, handleResetPassword(code) PROVE IInv'
<1>1. PICK d : d = [Req("reset", "spend") EXCEPT !.proof = code]
  OBVIOUS
<1>2. "reset" \in Ops /\ "spend" \in Ats
  BY DEF Ops, Ats
<1>3. code \in Proof /\ code # NoProof /\ code[1] = "code"
  BY ProofShapes
<1>4. d \in Rec /\ d.op = "reset" /\ d.at = "spend" /\ d.keys = {} /\ d.proof = code
  <2>1. PICK q \in Rec : q = Req("reset", "spend") /\ q.op = "reset" /\ q.at = "spend" /\ q.keys = {} /\ q.proof = NoProof
    BY <1>2, <1>3, NewRequest
  <2>2. d = [q EXCEPT !.proof = code]
    BY <2>1, <1>1
  <2>3. d \in Rec
    BY <2>2, <1>2, <1>3, Zenon DEF Rec
  <2> QED
    BY <2>1, <2>2, <2>3 DEF Rec
<1>5. RequestFits(d)
  BY <1>3, <1>4, SpenderFits
<1> QED
  BY <1>1, <1>4, <1>5, BeginStep DEF handleResetPassword

LEMMA RedeemArrives ==
  ASSUME IInv, NEW l \in DOMAIN links, handleRedeemAccountRecovery(l) PROVE IInv'
<1>1. l \in Nat
  BY DEF IInv, Typed, RowsTyped
<1>2. PICK d : d = [Req("redeem", "spend") EXCEPT !.proof = <<"link", l>>]
  OBVIOUS
<1>3. "redeem" \in Ops /\ "spend" \in Ats
  BY DEF Ops, Ats
<1>4. PICK p : p = <<"link", l>>
  OBVIOUS
<1>5. p \in Proof /\ p # NoProof /\ p[1] = "link" /\ p[2] = l
  BY <1>1, <1>4, ProofShapes
<1>6. d \in Rec /\ d.op = "redeem" /\ d.at = "spend" /\ d.keys = {} /\ d.proof = p
  <2>1. PICK q \in Rec : q = Req("redeem", "spend") /\ q.op = "redeem" /\ q.at = "spend" /\ q.keys = {} /\ q.proof = NoProof
    BY <1>3, <1>4, <1>5, NewRequest
  <2>2. d = [q EXCEPT !.proof = p]
    BY <2>1, <1>2, <1>4
  <2>3. d \in Rec
    BY <2>2, <1>3, <1>4, <1>5, Zenon DEF Rec
  <2> QED
    BY <2>1, <2>2, <2>3 DEF Rec
<1>7. RequestFits(d)
  BY <1>5, <1>6, SpenderFits
<1> QED
  BY <1>2, <1>6, <1>7, BeginStep DEF handleRedeemAccountRecovery

LEMMA CodesAsked == ASSUME IInv, NEW s \in Nat, handleIssueRecoveryCodes(s) PROVE IInv'
<1>1. PICK d : d = [Req("codes", "replace") EXCEPT !.from = s]
  OBVIOUS
<1>2. "codes" \in Ops /\ "replace" \in Ats
  BY DEF Ops, Ats
<1>3. d \in Rec /\ d.op = "codes" /\ d.at = "replace" /\ d.keys = {} /\ d.proof = NoProof
  <2>1. PICK q \in Rec : q = Req("codes", "replace") /\ q.op = "codes" /\ q.at = "replace" /\ q.keys = {} /\ q.proof = NoProof
    BY <1>2, NewRequest
  <2>2. d = [q EXCEPT !.from = s]
    BY <2>1, <1>1
  <2>3. d \in Rec
    BY <2>2, <1>2, Zenon DEF Rec
  <2> QED
    BY <2>1, <2>2, <2>3 DEF Rec
<1>4. RequestFits(d)
  BY <1>3 DEF RequestFits
<1> QED
  BY <1>1, <1>3, <1>4, BeginStep DEF handleIssueRecoveryCodes

LEMMA MoveArrives ==
  ASSUME IInv, NEW s \in DOMAIN sessions, handleSwitchOrganization(s) PROVE IInv'
<1>1. s \in Nat /\ sessions[s].pw \in Nat
  <2>1. sessions \in Seq(Row)
    BY DEF IInv, Typed
  <2>2. s \in Nat /\ sessions[s] \in Row
    BY <2>1
  <2> QED
    BY <2>2 DEF Row
<1>2. PICK pw : pw = sessions[s].pw
  OBVIOUS
<1>3. PICK d : d = [Req("move", "reissue") EXCEPT !.from = s, !.pw = pw]
  OBVIOUS
<1>4. "move" \in Ops /\ "reissue" \in Ats
  BY DEF Ops, Ats
<1>5. d \in Rec /\ d.op = "move" /\ d.at = "reissue" /\ d.keys = {} /\ d.proof = NoProof /\ d.from = s
  <2>1. PICK q \in Rec : q = Req("move", "reissue") /\ q.op = "move" /\ q.at = "reissue" /\ q.keys = {} /\ q.proof = NoProof
    BY <1>1, <1>2, <1>4, NewRequest
  <2>2. d = [q EXCEPT !.from = s, !.pw = pw]
    BY <2>1, <1>3
  <2>3. d \in Rec
    BY <2>2, <1>1, <1>2, <1>4, Zenon DEF Rec
  <2> QED
    BY <2>1, <2>2, <2>3 DEF Rec
<1>6. RequestFits(d)
  BY <1>5 DEF RequestFits
<1>7. Begin(d)
  BY <1>2, <1>3 DEF handleSwitchOrganization
<1> QED
  BY <1>5, <1>6, <1>7, BeginStep DEF handleSwitchOrganization

-----------------------------------------------------------------------------
(* Requests that go on *)

LEMMA Known == ASSUME IInv, NEW r \in requests PROVE r \in Rec /\ RequestFits(r)
BY DEF IInv, Typed

\* A request that has got past what it spends may go to the next statement.
LEMMA NextFits ==
  ASSUME IInv, NEW r \in requests,
         NEW at \in {"count", "ask", "store", "check", "settle", "set", "mint", "insert"},
         at \in {"count", "ask"} => r.op = "login",
         at = "store" => r.op = "begin",
         at = "check" => r.op \in {"register", "assert", "passwordless"},
         at = "settle" => r.op \in {"assert", "second"},
         at = "mint" => r.op \in {"login", "assert", "second", "passwordless"},
         at = "mint" /\ r.op = "login" => r.keys \cap keys = {}
  PROVE  at \in Ats /\ RequestFits([r EXCEPT !.at = at])
<1>1. at \in Ats
  BY DEF Ats
<1>2. r \in Rec /\ RequestFits(r)
  BY Known
<1>3. PICK d : d = [r EXCEPT !.at = at]
  OBVIOUS
<1>4. d.at = at /\ d.op = r.op /\ d.pw = r.pw /\ d.keys = r.keys /\ d.from = r.from /\ d.proof = r.proof
  BY <1>1, <1>2, <1>3, Moved
<1>5. RequestFits(d)
  BY <1>2, <1>4 DEF RequestFits
<1> QED
  BY <1>1, <1>3, <1>5

LEMMA RehashKeeps == ASSUME IInv, NEW r \in requests, Rehash(r) PROVE IInv'
<1>1. r \in Rec /\ RequestFits(r) /\ r.at = "rehash"
  BY Known DEF Rehash
<1>2. r.pw = 0 /\ r.op = "login"
  BY <1>1 DEF RequestFits
<1>3. "count" \in Ats /\ RequestFits([r EXCEPT !.at = "count"])
  BY <1>2, NextFits
<1>4. stored' \in [pw : Nat, old : BOOLEAN] /\ PasswordFits'
  <2>1. CASE stored' = stored
    BY <2>1, PasswordStays DEF Rehash, IInv, Typed, RowsTyped
  <2>2. CASE stored' = [pw |-> 0, old |-> FALSE]
    BY <2>2 DEF PasswordFits, OnlyAnUpgradeOverwrites
  <2> QED
    BY <1>2, <2>1, <2>2 DEF Rehash
<1> QED
  BY <1>1, <1>3, <1>4, GoOnStep DEF Rehash

\* A step of a request that leaves the password alone.
LEMMA PlainStep ==
  ASSUME IInv, NEW r \in requests, NEW at \in Ats, GoOn(r, at), RequestFits([r EXCEPT !.at = at]),
         at \notin {"take", "spend"}, r.at \notin {"take", "spend"},
         UNCHANGED <<stored, chosen, keys, codes, links, sessions, used, spent, outcomes, cut>>,
         waiting' \subseteq waiting, challenges' \subseteq challenges
  PROVE  IInv'
<1>1. stored' \in [pw : Nat, old : BOOLEAN] /\ PasswordFits'
  BY PasswordStays DEF IInv, Typed, RowsTyped
<1> QED
  BY <1>1, GoOnStep

LEMMA CountKeeps == ASSUME IInv, NEW r \in requests, CountPasskeys(r) PROVE IInv'
<1>1. r.at = "count" /\ r.op = "login"
  BY Known DEF CountPasskeys, RequestFits
<1>2. PICK at \in {"ask", "mint"} : at = (IF NeedsFactor THEN "ask" ELSE "mint") /\ GoOn(r, at)
  BY DEF CountPasskeys
<1>3. at = "mint" => r.keys \cap keys = {}
  BY <1>2 DEF NeedsFactor
<1>4. at \in Ats /\ RequestFits([r EXCEPT !.at = at])
  BY <1>1, <1>2, <1>3, NextFits
<1> QED
  BY <1>1, <1>2, <1>4, PlainStep DEF CountPasskeys

LEMMA ClearKeeps == ASSUME IInv, NEW r \in requests, ClearChallenges(r) PROVE IInv'
<1>1. r.at = "clear" /\ r.op \in {"begin", "codes", "move"}
  BY Known DEF ClearChallenges, RequestFits
<1>2. "store" \in Ats /\ RequestFits([r EXCEPT !.at = "store"])
  <2>1. r \in Rec /\ RequestFits(r) /\ "store" \in Ats
    BY Known DEF Ats
  <2>2. PICK d : d = [r EXCEPT !.at = "store"]
    OBVIOUS
  <2>3. d.at = "store" /\ d.op = r.op /\ d.keys = r.keys /\ d.proof = r.proof
    BY <2>1, <2>2, Moved
  <2>4. RequestFits(d)
    BY <1>1, <2>1, <2>3 DEF RequestFits
  <2> QED
    BY <2>1, <2>2, <2>4
<1> QED
  BY <1>1, <1>2, PlainStep DEF ClearChallenges

LEMMA ConsumeKeeps == ASSUME IInv, NEW r \in requests, ConsumePendingMFA(r) PROVE IInv'
<1>1. r.at = "settle" /\ r.op \in {"assert", "second"}
  BY Known DEF ConsumePendingMFA, RequestFits
<1>2. "mint" \in Ats /\ RequestFits([r EXCEPT !.at = "mint"])
  BY <1>1, NextFits
<1>3. waiting' \subseteq waiting
  BY DEF ConsumePendingMFA
<1> QED
  BY <1>1, <1>2, <1>3, PlainStep DEF ConsumePendingMFA

\* A request ends with the rows as they were.
LEMMA EndStep ==
  ASSUME IInv, NEW r \in requests, Done(r), ProofsFit',
         UNCHANGED <<stored, chosen, keys, codes, links, sessions, used, spent>>,
         waiting' \subseteq Wait, challenges' \subseteq challenges
  PROVE  IInv'
<1>1. RowsTyped' /\ sessions' \in Seq(Row)
  BY DEF IInv, Typed, RowsTyped
<1>2. Numbered' /\ PasswordFits' /\ NoKeySkipped' /\ CutOffByChange'
  BY NumbersStay, PasswordStays, SessionsStay DEF IInv
<1>3. Grows
  <2>1. used \in Count /\ used.sets <= used.sets /\ used.keys <= used.keys /\ used.challenges <= used.challenges
    BY DEF Count, IInv, Typed, RowsTyped
  <2> QED
    BY <2>1 DEF Grows
<1> QED
  BY <1>1, <1>2, <1>3, DoneStep

LEMMA CheckKeeps == ASSUME IInv, NEW r \in requests, CheckKey(r) PROVE IInv'
<1>1. r.at = "check" /\ r.op \in {"register", "assert", "passwordless"}
  BY Known DEF CheckKey, RequestFits
<1>2. CASE r.op = "register" \/ (r.key \in keys /\ (r.op = "assert" \/ Cardinality(keys) >= 2 \/ codes # {}))
  <2>1. PICK at \in {"insert", "settle", "mint"} :
          /\ at = (IF r.op = "register" THEN "insert" ELSE IF r.op = "assert" THEN "settle" ELSE "mint")
          /\ GoOn(r, at) /\ UNCHANGED cut
    BY <1>2 DEF CheckKey
  <2>2. at \in Ats /\ RequestFits([r EXCEPT !.at = at])
    BY <1>1, <2>1, NextFits
  <2> QED
    BY <1>1, <2>1, <2>2, PlainStep DEF CheckKey
<1>3. CASE ~(r.op = "register" \/ (r.key \in keys /\ (r.op = "assert" \/ Cardinality(keys) >= 2 \/ codes # {})))
  <2>1. Done(r) /\ cut' = cut \cup {r.proof}
    BY <1>3 DEF CheckKey
  <2>2. ProofsFit'
    BY <2>1, ProofsCut DEF CheckKey, IInv
  <2> QED
    BY <2>1, <2>2, EndStep DEF CheckKey, IInv, Typed, RowsTyped
<1> QED
  BY <1>2, <1>3

LEMMA PendingKeeps == ASSUME IInv, NEW r \in requests, CreatePendingMFA(r) PROVE IInv'
<1>1. r \in Rec /\ r.at = "ask" /\ r.proof = NoProof
  BY Known DEF CreatePendingMFA, RequestFits
<1>2. waiting' \subseteq Wait
  <2>1. [n |-> r.n, pw |-> r.pw, keys |-> r.keys] \in Wait
    BY <1>1 DEF Rec, Wait
  <2> QED
    BY <2>1 DEF CreatePendingMFA, IInv, Typed, RowsTyped
<1>3. ~Holds(r)
  BY <1>1 DEF Holds
<1>4. ProofsFit'
  BY <1>3, ProofsLeave DEF CreatePendingMFA, IInv
<1> QED
  BY <1>2, <1>4, EndStep DEF CreatePendingMFA

LEMMA CutKeeps == ASSUME IInv, NEW r \in requests, CutOff(r) PROVE IInv'
<1>1. Holds(r) => r.proof \in cut'
  BY DEF CutOff, IInv, ProofsFit
<1>2. ProofsFit'
  BY <1>1, ProofsCut DEF CutOff, IInv
<1> QED
  BY <1>2, EndStep DEF CutOff, IInv, Typed, RowsTyped

-----------------------------------------------------------------------------
(* Proofs that are spent *)

LEMMA SpendStep ==
  ASSUME IInv, NEW r \in requests, NEW at \in Ats, GoOn(r, at), RequestFits([r EXCEPT !.at = at]),
         r.at \in {"take", "spend"}, at \notin {"take", "spend"},
         r.proof \notin spent, spent' = spent \cup {r.proof}, Gone(r.proof)',
         RowsTyped', Grows, Numbered', UNCHANGED <<stored, chosen, sessions, outcomes, cut>>
  PROVE  IInv'
<1> DEFINE d == [r EXCEPT !.at = at]
<1>1. requests' = (requests \ {r}) \cup {d}
  BY DEF GoOn
<1>2. r \in Rec /\ r.proof # NoProof /\ r.proof \in Proof
  BY Known DEF RequestFits, Rec
<1>3. d \in Rec /\ d.at = at /\ d.proof = r.proof
  BY <1>2, Moved
<1>4. RequestFits(d)
  OBVIOUS
<1> HIDE DEF d
<1>5. Typed'
  BY <1>1, <1>2, <1>3 DEF IInv, Typed
<1>6. RequestFits(d)'
  BY <1>3, <1>4, <1>5, FitStays DEF IInv
<1>7. ~Holds(r) /\ Holds(d)
  BY <1>2, <1>3 DEF Holds
<1>8. ProofsFit'
  BY <1>1, <1>3, <1>7, ProofsSpend DEF IInv
<1>9. PasswordFits' /\ NoKeySkipped' /\ CutOffByChange'
  BY PasswordStays, SessionsStay DEF IInv
<1> QED
  BY <1>1, <1>5, <1>6, <1>8, <1>9, Step

\* A refused attempt to spend leaves what it found, or less.
LEMMA RefusedStep ==
  ASSUME IInv, NEW r \in requests, r.at \in {"take", "spend"}, Done(r),
         UNCHANGED <<stored, chosen, keys, codes, links, waiting, sessions, used, spent, outcomes, cut>>,
         challenges' \subseteq challenges
  PROVE  IInv'
<1>1. ProofsFit'
  BY ProofsLeave DEF Holds, IInv
<1> QED
  BY <1>1, EndStep DEF IInv, Typed, RowsTyped

\* Nothing new: what there was may go, and a link may only close.
LEMMA Shrinks ==
  ASSUME IInv, UNCHANGED <<stored, chosen, used>>, DOMAIN sessions' = DOMAIN sessions,
         keys' \subseteq keys, codes' \subseteq codes,
         challenges' \subseteq challenges, waiting' \subseteq waiting,
         links' \in Seq({"open", "used", "closed"}), DOMAIN links' = DOMAIN links,
         \A l \in DOMAIN links : links[l] # "open" => links'[l] # "open"
  PROVE  RowsTyped' /\ Grows /\ Numbered'
<1>1. used \in Count /\ used.sets <= used.sets /\ used.keys <= used.keys /\ used.challenges <= used.challenges
  BY DEF Count, IInv, Typed, RowsTyped
<1>2. RowsTyped'
  BY DEF IInv, Typed, RowsTyped
<1>3. Grows
  BY <1>1 DEF Grows
<1>4. Numbered'
  BY NumbersStay DEF IInv
<1> QED
  BY <1>2, <1>3, <1>4

LEMMA TakeKeeps == ASSUME IInv, NEW r \in requests, TakeChallenge(r) PROVE IInv'
<1> DEFINE rows == {c \in challenges : c.purpose = r.purpose}
           mine == {c \in rows : <<"challenge", c.n>> = r.proof}
<1>1. /\ r \in Rec /\ r.at = "take" /\ r.op \in {"register", "assert", "passwordless"}
      /\ r.proof[1] = "challenge" /\ r.proof[2] <= used.challenges
  BY Known DEF TakeChallenge, RequestFits
<1>2. "check" \in Ats /\ RequestFits([r EXCEPT !.at = "check"])
  BY <1>1, NextFits
<1>3. challenges' \subseteq challenges
  BY DEF TakeChallenge, Keeps
<1>4. RowsTyped' /\ Grows /\ Numbered'
  <2>1. links \in Seq({"open", "used", "closed"})
    BY DEF IInv, Typed, RowsTyped
  <2> QED
    BY <1>3, <2>1, Shrinks DEF TakeChallenge
<1>5. CASE Done(r) /\ UNCHANGED spent
  BY <1>1, <1>3, <1>5, RefusedStep DEF TakeChallenge
<1>6. CASE mine # {} /\ GoOn(r, "check") /\ spent' = spent \cup {r.proof}
  <2>1. PICK c \in challenges : c.purpose = r.purpose /\ <<"challenge", c.n>> = r.proof
    BY <1>6
  <2>2. r.proof[2] = c.n
    BY <2>1
  <2>3. c \notin challenges'
    <3>1. c \in mine /\ c.purpose = r.purpose
      BY <2>1
    <3> QED
      BY <3>1 DEF TakeChallenge, Keeps
  <2>4. \A b \in challenges' : b.n # r.proof[2]
    BY <1>3, <2>1, <2>2, <2>3 DEF IInv, Numbered
  <2>5. r.proof \notin spent
    BY <1>1, <2>1, <2>2 DEF IInv, Gone
  <2>6. r.proof \notin codes'
    <3>1. codes' \subseteq {"code"} \X Nat \X Nat
      BY <1>4 DEF RowsTyped
    <3>2. \A code \in codes' : code[1] = "code"
      BY <3>1
    <3> QED
      BY <1>1, <3>2
  <2>7. Gone(r.proof)'
    BY <1>1, <2>4, <2>6 DEF Gone, TakeChallenge
  <2> QED
    BY <1>1, <1>2, <1>4, <1>6, <2>5, <2>7, SpendStep DEF TakeChallenge
<1>7. (Done(r) /\ UNCHANGED spent) \/ (mine # {} /\ GoOn(r, "check") /\ spent' = spent \cup {r.proof})
  BY DEF TakeChallenge
<1> QED
  BY <1>5, <1>6, <1>7

LEMMA SpendKeeps == ASSUME IInv, NEW r \in requests, Spend(r) PROVE IInv'
<1>1. /\ r \in Rec /\ r.at = "spend" /\ r.op \in {"second", "reset", "redeem"}
      /\ r.proof # NoProof /\ r.proof \in Proof
      /\ r.proof[1] = (IF r.op = "redeem" THEN "link" ELSE "code")
      /\ r.op = "redeem" => r.proof[2] \in DOMAIN links
      /\ r.op # "redeem" => r.proof[2] <= used.sets
  BY Known DEF Spend, RequestFits, Rec
<1>2. CASE ~Unspent(r.proof)
  BY <1>1, <1>2, RefusedStep DEF Spend
<1>3. CASE Unspent(r.proof)
  <2>1. PICK at \in {"settle", "set"} : (at = "settle" => r.op = "second") /\ GoOn(r, at)
    BY <1>3 DEF Spend, AfterSpending
  <2>2. at \in Ats /\ RequestFits([r EXCEPT !.at = at])
    BY <2>1, NextFits
  <2>3. r.proof \notin spent
    BY <1>1, <1>3 DEF Unspent, IInv, Gone
  <2>4. spent' = spent \cup {r.proof} /\ codes' = codes \ {r.proof} /\ challenges' = challenges
    BY <1>3 DEF Spend
  <2>5. /\ keys' \subseteq keys /\ waiting' \subseteq waiting
        /\ links' \in Seq({"open", "used", "closed"}) /\ DOMAIN links' = DOMAIN links
        /\ \A l \in DOMAIN links : links[l] # "open" => links'[l] # "open"
        /\ r.op = "redeem" => links'[r.proof[2]] # "open"
    <3>1. links \in Seq({"open", "used", "closed"})
      BY DEF IInv, Typed, RowsTyped
    <3>2. CASE r.op = "redeem"
      <4>1. links' = [links EXCEPT ![r.proof[2]] = "used"] /\ keys' = {} /\ waiting' = {}
        BY <1>3, <3>2 DEF Spend
      <4> QED
        BY <1>1, <3>1, <3>2, <4>1
    <3>3. CASE r.op # "redeem"
      BY <1>3, <3>1, <3>3 DEF Spend
    <3> QED
      BY <3>2, <3>3
  <2>6. RowsTyped' /\ Grows /\ Numbered'
    BY <2>4, <2>5, Shrinks DEF Spend
  <2>7. Gone(r.proof)'
    BY <1>1, <2>4, <2>5 DEF Gone, Spend
  <2> QED
    BY <1>1, <2>1, <2>2, <2>3, <2>4, <2>6, <2>7, SpendStep DEF Spend
<1> QED
  BY <1>2, <1>3

-----------------------------------------------------------------------------
(* Requests that end with a row more, or a row less *)

LEMMA Counts ==
  ASSUME IInv
  PROVE  /\ used \in Count /\ used.sets \in Nat /\ used.keys \in Nat /\ used.challenges \in Nat
         /\ used.sets <= used.sets /\ used.keys <= used.keys /\ used.challenges <= used.challenges
BY DEF Count, IInv, Typed, RowsTyped

LEMMA StoreKeeps == ASSUME IInv, NEW r \in requests, StoreChallenge(r) PROVE IInv'
<1>1. r \in Rec /\ r.at = "store" /\ r.proof = NoProof
  BY Known DEF StoreChallenge, RequestFits
<1>2. /\ used' \in Count /\ used'.sets = used.sets /\ used'.keys = used.keys
      /\ used'.challenges = used.challenges + 1
  BY Counts DEF StoreChallenge, Count
<1>3. PICK c : c = [n |-> used.challenges + 1, purpose |-> r.purpose]
  OBVIOUS
<1>4. c \in Asked /\ c.n = used.challenges + 1 /\ challenges' = challenges \cup {c}
  <2>1. r.purpose \in {"", "REGISTER", "LOGIN", "SIGNIN"}
    BY <1>1 DEF Rec
  <2>2. c \in Asked
    <3>1. used.challenges + 1 \in Nat
      BY Counts
    <3> QED
      BY <1>3, <2>1, <3>1, Zenon DEF Asked
  <2>3. c.n = used.challenges + 1 /\ challenges' = challenges \cup {c}
    BY <1>3 DEF StoreChallenge
  <2> QED
    BY <2>2, <2>3
<1>5. RowsTyped' /\ sessions' \in Seq(Row)
  BY <1>2, <1>4 DEF StoreChallenge, IInv, Typed, RowsTyped
<1>6. Grows
  BY <1>2, <1>4, Counts DEF StoreChallenge, Grows
<1>7. Numbered'
  <2>1. \A b \in challenges : b.n \in Nat /\ b.n <= used.challenges
    BY DEF IInv, Typed, RowsTyped, Asked, Numbered
  <2>2. \A b \in challenges' : b.n <= used.challenges + 1 /\ (b.n = used.challenges + 1 => b = c)
    BY <1>4, <2>1, Counts
  <2>3. \A b, d \in challenges' : b.n = d.n => b = d
    BY <1>4, <2>1, <2>2, Counts DEF IInv, Numbered
  <2> QED
    BY <1>2, <2>2, <2>3 DEF StoreChallenge, IInv, Numbered
<1>8. ProofsFit'
  BY <1>1, ProofsLeave DEF StoreChallenge, IInv, Holds
<1>9. PasswordFits' /\ NoKeySkipped' /\ CutOffByChange'
  BY PasswordStays, SessionsStay DEF StoreChallenge, IInv
<1> QED
  BY <1>5, <1>6, <1>7, <1>8, <1>9, DoneStep DEF StoreChallenge

LEMMA ReplaceKeeps == ASSUME IInv, NEW r \in requests, ReplaceRecoveryCodes(r) PROVE IInv'
<1>1. r \in Rec /\ r.at = "replace" /\ r.proof = NoProof
  BY Known DEF ReplaceRecoveryCodes, RequestFits
<1>2. /\ used' \in Count /\ used'.sets = used.sets + 1 /\ used'.keys = used.keys
      /\ used'.challenges = used.challenges
  BY Counts DEF ReplaceRecoveryCodes, Count
<1>3. \A c \in codes' : c \in {"code"} \X Nat \X Nat /\ c[2] = used.sets + 1
  BY Counts DEF ReplaceRecoveryCodes
<1>4. RowsTyped' /\ sessions' \in Seq(Row)
  BY <1>2, <1>3 DEF ReplaceRecoveryCodes, IInv, Typed, RowsTyped
<1>5. Grows
  BY <1>2, <1>3, Counts DEF ReplaceRecoveryCodes, Grows
<1>6. ProofsFit'
  BY <1>1, ProofsLeave DEF ReplaceRecoveryCodes, IInv, Holds
<1>7. Numbered' /\ PasswordFits' /\ NoKeySkipped' /\ CutOffByChange'
  BY <1>2, NumbersStay, PasswordStays, SessionsStay DEF ReplaceRecoveryCodes, IInv
<1> QED
  BY <1>4, <1>5, <1>6, <1>7, DoneStep DEF ReplaceRecoveryCodes

LEMMA PasskeyKeeps == ASSUME IInv, NEW r \in requests, CreatePasskey(r) PROVE IInv'
<1>1. /\ used' \in Count /\ used'.sets = used.sets /\ used'.keys = used.keys + 1
      /\ used'.challenges = used.challenges
  BY Counts DEF CreatePasskey, Count
<1>2. keys' = keys \cup {used.keys + 1} /\ keys \subseteq Nat
  BY DEF CreatePasskey, IInv, Typed, RowsTyped
<1>3. RowsTyped' /\ sessions' \in Seq(Row)
  BY <1>1, <1>2, Counts DEF CreatePasskey, IInv, Typed, RowsTyped
<1>4. Grows
  BY <1>1, <1>2, Counts DEF CreatePasskey, Grows
<1>5. Numbered'
  BY <1>1, <1>2, Counts DEF CreatePasskey, IInv, Numbered
<1>6. ProofsFit'
  BY ProofsBring DEF CreatePasskey, IInv
<1>7. PasswordFits' /\ NoKeySkipped' /\ CutOffByChange'
  BY PasswordStays, SessionsStay DEF CreatePasskey, IInv
<1> QED
  BY <1>3, <1>4, <1>5, <1>6, <1>7, DoneStep DEF CreatePasskey

LEMMA RowAdded ==
  ASSUME IInv, NEW row \in Row, sessions' = Append(sessions, row), chosen' = chosen,
         row.since = chosen, row.by = "password" => row.skipped = {}
  PROVE  /\ sessions' \in Seq(Row) /\ DOMAIN sessions \subseteq DOMAIN sessions'
         /\ NoKeySkipped' /\ CutOffByChange'
<1>1. sessions \in Seq(Row)
  BY DEF IInv, Typed
<1>2. \A s \in DOMAIN sessions' : sessions'[s] = row \/ (s \in DOMAIN sessions /\ sessions'[s] = sessions[s])
  BY <1>1
<1>3. NoKeySkipped'
  BY <1>2 DEF IInv, NoKeySkipped
<1>4. CutOffByChange'
  BY <1>2 DEF IInv, CutOffByChange
<1> QED
  BY <1>1, <1>3, <1>4

LEMMA SignInKeeps == ASSUME IInv, NEW r \in requests, completeSignIn(r) PROVE IInv'
<1>1. /\ r \in Rec /\ r.at = "mint" /\ r.op \in {"login", "assert", "second", "passwordless"}
      /\ r.op = "login" => r.keys \cap keys = {}
  BY Known DEF completeSignIn, RequestFits
<1>2. PICK row : row = [pw |-> r.pw, by |-> FactorOf(r), proof |-> r.proof, live |-> TRUE,
                        since |-> chosen, skipped |-> r.keys \cap keys]
  OBVIOUS
<1>3. FactorOf(r) \in {"password", "passkey", "code", "passkey-only"} /\ (FactorOf(r) = "password" => r.op = "login")
  BY <1>1 DEF FactorOf
<1>4. r.pw \in Nat /\ r.proof \in Proof \cup {NoProof} /\ chosen \in Nat /\ r.keys \cap keys \in SUBSET Nat
  BY <1>1 DEF Rec, IInv, Typed, RowsTyped
<1>5. row \in Row
  BY <1>2, <1>3, <1>4 DEF Row
<1>6. row.since = chosen /\ (row.by = "password" => row.skipped = {})
  BY <1>1, <1>2, <1>3
<1>7. sessions' = Append(sessions, row) /\ chosen' = chosen
  BY <1>2 DEF completeSignIn
<1>8. sessions' \in Seq(Row) /\ DOMAIN sessions \subseteq DOMAIN sessions' /\ NoKeySkipped' /\ CutOffByChange'
  BY <1>5, <1>6, <1>7, RowAdded
<1>9. RowsTyped' /\ Grows
  BY <1>8, Counts DEF completeSignIn, IInv, Typed, RowsTyped, Grows
<1>10. ProofsFit'
  BY <1>1, ProofsBring DEF completeSignIn, IInv
<1>11. Numbered' /\ PasswordFits'
  BY NumbersStay, PasswordStays DEF completeSignIn, IInv
<1> QED
  BY <1>8, <1>9, <1>10, <1>11, DoneStep DEF completeSignIn

LEMMA ReissueKeeps == ASSUME IInv, NEW r \in requests, Reissue(r) PROVE IInv'
<1>1. /\ r \in Rec /\ RequestFits(r) /\ r.at = "reissue" /\ r.proof = NoProof
      /\ r.op \in {"begin", "codes", "move"} /\ r.from \in DOMAIN sessions
  BY Known DEF Reissue, RequestFits
<1>2. PICK row : row = [sessions[r.from] EXCEPT !.live = TRUE, !.since = chosen,
                          !.proof = NoProof, !.skipped = {}]
  OBVIOUS
<1>3. sessions[r.from] \in Row /\ chosen \in Nat
  <2>1. sessions \in Seq(Row)
    BY DEF IInv, Typed
  <2> QED
    BY <1>1, <2>1 DEF IInv, Typed, RowsTyped
<1>4. row \in Row
  <2>1. PICK q \in Row : q = sessions[r.from]
    BY <1>3
  <2>2. row = [q EXCEPT !.live = TRUE, !.since = chosen, !.proof = NoProof, !.skipped = {}]
    BY <1>2, <2>1
  <2>3. NoProof \in Proof \cup {NoProof} /\ {} \in SUBSET Nat /\ TRUE \in BOOLEAN
    OBVIOUS
  <2> QED
    BY <1>3, <2>2, <2>3, Zenon DEF Row
<1>5. row.since = chosen /\ row.skipped = {}
  BY <1>2, <1>3 DEF Row
<1>6. sessions' = Append(sessions, row) /\ chosen' = chosen
  BY <1>2 DEF Reissue
<1>7. sessions' \in Seq(Row) /\ DOMAIN sessions \subseteq DOMAIN sessions' /\ NoKeySkipped' /\ CutOffByChange'
  BY <1>4, <1>5, <1>6, RowAdded
<1>8. "retire" \in Ats
  BY DEF Ats
<1>9. PICK d : d = [r EXCEPT !.at = "retire"]
  OBVIOUS
<1>10. d \in Rec /\ d.at = "retire" /\ d.op = r.op /\ d.keys = r.keys /\ d.from = r.from /\ d.proof = r.proof
  BY <1>1, <1>8, <1>9, Moved
<1>11. RequestFits(d)
  BY <1>1, <1>10 DEF RequestFits
<1>12. requests' = (requests \ {r}) \cup {d}
  BY <1>9 DEF Reissue, GoOn
<1>13. Typed'
  BY <1>7, <1>10, <1>12 DEF Reissue, IInv, Typed, RowsTyped
<1>14. Grows
  BY <1>7, Counts DEF Reissue, Grows
<1>15. RequestFits(d)'
  BY <1>10, <1>11, <1>13, <1>14, FitStays DEF IInv
<1>16. ProofsFit'
  BY <1>1, <1>10, <1>12, ProofsGoOn DEF Reissue, IInv, Holds
<1>17. Numbered' /\ PasswordFits'
  BY NumbersStay, PasswordStays DEF Reissue, IInv
<1> QED
  BY <1>7, <1>12, <1>13, <1>14, <1>15, <1>16, <1>17, Step DEF Reissue

-----------------------------------------------------------------------------
(* The ends of sessions *)

LEMMA PasswordKeeps == ASSUME IInv, NEW r \in requests, setPassword(r) PROVE IInv'
<1>1. sessions \in Seq(Row) /\ chosen \in Nat /\ chosen + 1 \in Nat
  BY DEF IInv, Typed, RowsTyped
<1>2. ASSUME NEW s \in DOMAIN sessions
      PROVE  /\ s \in DOMAIN sessions' /\ sessions'[s] \in Row /\ sessions'[s].live = FALSE
             /\ sessions'[s].by = sessions[s].by /\ sessions'[s].skipped = sessions[s].skipped
  <2>1. PICK q \in Row : q = sessions[s]
    BY <1>1
  <2>2. sessions'[s] = [q EXCEPT !.live = @ /\ ~Revokes(s)] /\ s \in DOMAIN sessions'
    BY <2>1 DEF setPassword
  <2>3. (q.live /\ ~Revokes(s)) = FALSE
    BY DEF Revokes
  <2>4. sessions'[s] = [q EXCEPT !.live = FALSE]
    BY <2>2, <2>3
  <2>5. [q EXCEPT !.live = FALSE] \in Row
    BY Zenon DEF Row
  <2>6. sessions'[s].live = FALSE /\ sessions'[s].by = q.by /\ sessions'[s].skipped = q.skipped
    BY <2>4 DEF Row
  <2> QED
    BY <2>1, <2>2, <2>4, <2>5, <2>6
<1>3. DOMAIN sessions' = DOMAIN sessions
  BY DEF setPassword
<1>4. sessions' \in Seq(Row)
  <2>1. DOMAIN sessions = 1..Len(sessions) /\ Len(sessions) \in Nat
    BY <1>1
  <2>2. PICK f : f = sessions' /\ f = [s \in 1..Len(sessions) |-> f[s]] /\ \A s \in 1..Len(sessions) : f[s] \in Row
    BY <1>2, <1>3, <2>1 DEF setPassword
  <2> QED
    BY <2>1, <2>2
<1>5. RowsTyped' /\ Grows
  BY <1>1, <1>3, Counts DEF setPassword, IInv, Typed, RowsTyped, Grows
<1>6. PasswordFits'
  BY DEF setPassword, PasswordFits, OnlyAnUpgradeOverwrites
<1>7. NoKeySkipped'
  BY <1>2, <1>3 DEF IInv, NoKeySkipped
<1>8. CutOffByChange'
  BY <1>2, <1>3 DEF CutOffByChange
<1>9. ProofsFit'
  BY ProofsBring DEF setPassword, IInv
<1>10. Numbered'
  BY NumbersStay DEF setPassword, IInv
<1> QED
  BY <1>4, <1>5, <1>6, <1>7, <1>8, <1>9, <1>10, DoneStep DEF setPassword

LEMMA RowEnded ==
  ASSUME IInv, NEW s \in DOMAIN sessions, chosen' = chosen,
         sessions' = [sessions EXCEPT ![s] = [@ EXCEPT !.live = FALSE]]
  PROVE  /\ sessions' \in Seq(Row) /\ DOMAIN sessions' = DOMAIN sessions
         /\ NoKeySkipped' /\ CutOffByChange'
<1>1. sessions \in Seq(Row)
  BY DEF IInv, Typed
<1>2. PICK q \in Row : q = sessions[s]
  BY <1>1
<1>3. PICK row : row = [q EXCEPT !.live = FALSE]
  OBVIOUS
<1>4. row \in Row
  BY <1>3, Zenon DEF Row
<1>5. row.live = FALSE /\ row.by = q.by /\ row.skipped = q.skipped
  BY <1>3 DEF Row
<1>6. sessions' = [sessions EXCEPT ![s] = row]
  BY <1>2, <1>3
<1>7. sessions' \in Seq(Row) /\ DOMAIN sessions' = DOMAIN sessions
  <2>1. DOMAIN sessions = 1..Len(sessions)
    BY <1>1
  <2>2. s \in 1..Len(sessions)
    BY <2>1
  <2>3. sessions' \in Seq(Row)
    <3>1. [sessions EXCEPT ![s] = row] \in Seq(Row)
      BY <1>1, <1>4, <2>2, ExceptSeq
    <3> QED
      BY <1>6, <3>1
  <2>4. DOMAIN sessions' = DOMAIN sessions
    BY <1>6
  <2> QED
    BY <2>3, <2>4
<1>8. \A i \in DOMAIN sessions' : sessions'[i] = IF i = s THEN row ELSE sessions[i]
  BY <1>1, <1>6
<1>9. NoKeySkipped'
  BY <1>2, <1>5, <1>7, <1>8 DEF IInv, NoKeySkipped
<1>10. CutOffByChange'
  BY <1>5, <1>7, <1>8 DEF IInv, CutOffByChange
<1> QED
  BY <1>7, <1>9, <1>10

LEMMA RetireKeeps == ASSUME IInv, NEW r \in requests, Retire(r) PROVE IInv'
<1>1. r.from \in DOMAIN sessions /\ r.proof = NoProof
  BY Known DEF Retire, RequestFits
<1>2. sessions' \in Seq(Row) /\ DOMAIN sessions' = DOMAIN sessions /\ NoKeySkipped' /\ CutOffByChange'
  BY <1>1, RowEnded DEF Retire
<1>3. RowsTyped' /\ Grows /\ Numbered'
  BY <1>2, Shrinks DEF Retire, IInv, Typed, RowsTyped
<1>4. ProofsFit'
  BY <1>1, ProofsLeave DEF Retire, IInv, Holds
<1>5. PasswordFits'
  BY PasswordStays DEF Retire, IInv
<1> QED
  BY <1>2, <1>3, <1>4, <1>5, DoneStep DEF Retire

LEMMA LogoutKeeps == ASSUME IInv, NEW s \in DOMAIN sessions, handleLogout(s) PROVE IInv'
<1>1. sessions' \in Seq(Row) /\ DOMAIN sessions' = DOMAIN sessions /\ NoKeySkipped' /\ CutOffByChange'
  BY RowEnded DEF handleLogout
<1>2. RowsTyped' /\ Grows /\ Numbered'
  BY <1>1, Shrinks DEF handleLogout, IInv, Typed, RowsTyped
<1>3. PasswordFits'
  BY PasswordStays DEF handleLogout, IInv
<1> QED
  BY <1>1, <1>2, <1>3, QuietStep DEF handleLogout

LEMMA DeleteKeyKeeps == ASSUME IInv, NEW s, NEW k, handleDeletePasskey(s, k) PROVE IInv'
<1>1. keys' \subseteq keys
  BY DEF handleDeletePasskey
<1>2. RowsTyped' /\ Grows /\ Numbered'
  BY <1>1, Shrinks DEF handleDeletePasskey, IInv, Typed, RowsTyped
<1>3. sessions' \in Seq(Row) /\ PasswordFits' /\ NoKeySkipped' /\ CutOffByChange'
  BY PasswordStays, SessionsStay DEF handleDeletePasskey, IInv, Typed
<1> QED
  BY <1>2, <1>3, QuietStep DEF handleDeletePasskey

LEMMA LinkKeeps == ASSUME IInv, handleIssueAccountRecovery PROVE IInv'
<1>1. links \in Seq({"open", "used", "closed"})
  BY DEF IInv, Typed, RowsTyped
<1>2. PICK closed : closed = [l \in DOMAIN links |-> IF links[l] = "open" THEN "closed" ELSE links[l]]
  OBVIOUS
<1>3. closed \in Seq({"open", "used", "closed"}) /\ DOMAIN closed = DOMAIN links
  <2>1. DOMAIN links = 1..Len(links) /\ Len(links) \in Nat
    BY <1>1
  <2>2. \A l \in 1..Len(links) : closed[l] \in {"open", "used", "closed"}
    BY <1>1, <1>2, <2>1
  <2>3. closed = [l \in 1..Len(links) |-> closed[l]]
    BY <1>2, <2>1
  <2> QED
    BY <2>1, <2>2, <2>3
<1>4. \A l \in DOMAIN links : links[l] # "open" => closed[l] # "open"
  BY <1>2
<1>5. links' = Append(closed, "open")
  BY <1>2 DEF handleIssueAccountRecovery
<1>6. /\ links' \in Seq({"open", "used", "closed"}) /\ DOMAIN links \subseteq DOMAIN links'
      /\ \A l \in DOMAIN links : links[l] # "open" => links'[l] # "open"
  BY <1>3, <1>4, <1>5
<1>7. RowsTyped' /\ sessions' \in Seq(Row)
  BY <1>6 DEF handleIssueAccountRecovery, IInv, Typed, RowsTyped
<1>8. Grows
  BY <1>6, Counts DEF handleIssueAccountRecovery, Grows
<1>9. Numbered' /\ PasswordFits' /\ NoKeySkipped' /\ CutOffByChange'
  BY NumbersStay, PasswordStays, SessionsStay DEF handleIssueAccountRecovery, IInv
<1> QED
  BY <1>7, <1>8, <1>9, QuietStep DEF handleIssueAccountRecovery

LEMMA TimeKeeps == ASSUME IInv, TimePasses PROVE IInv'
<1>1. links \in Seq({"open", "used", "closed"})
  BY DEF IInv, Typed, RowsTyped
<1>2. /\ links' \in Seq({"open", "used", "closed"}) /\ DOMAIN links' = DOMAIN links
      /\ \A l \in DOMAIN links : links[l] # "open" => links'[l] # "open"
      /\ waiting' \subseteq waiting /\ challenges' \subseteq challenges
  <2>1. CASE \E l \in DOMAIN links : links[l] = "open" /\ links' = [links EXCEPT ![l] = "closed"]
    <3>1. waiting' \subseteq waiting /\ challenges' \subseteq challenges
      BY DEF TimePasses, Lapses
    <3> QED
      BY <1>1, <2>1, <3>1
  <2>2. CASE links' = links
    BY <1>1, <2>2 DEF TimePasses, Lapses
  <2> QED
    BY <2>1, <2>2 DEF TimePasses, Lapses
<1>3. RowsTyped' /\ Grows /\ Numbered'
  BY <1>2, Shrinks DEF TimePasses
<1>4. sessions' \in Seq(Row) /\ PasswordFits' /\ NoKeySkipped' /\ CutOffByChange'
  BY PasswordStays, SessionsStay DEF TimePasses, IInv, Typed
<1> QED
  BY <1>3, <1>4, QuietStep DEF TimePasses

-----------------------------------------------------------------------------
(* Every step *)

LEMMA ArrivalsKeep == ASSUME IInv, Arrives PROVE IInv'
<1>1. ASSUME NEW pw \in 0..chosen, handleLogin(pw) PROVE IInv'
  <2>1. pw \in Nat
    BY DEF IInv, Typed, RowsTyped
  <2> QED
    BY <1>1, <2>1, LoginArrives
<1>2. ASSUME NEW p \in {"LOGIN", "REGISTER", "SIGNIN"}, NEW from \in 0..MaxRequests, BeginCeremony(p, from)
      PROVE  IInv'
  <2>1. from \in Nat
    BY AccountBounds
  <2> QED
    BY <1>2, <2>1, CeremonyBegins
<1>3. ASSUME NEW op \in {"assert", "register", "passwordless"}, NEW from \in 0..MaxRequests,
             NEW c \in 1..used.challenges, NEW key \in 0..used.keys, FinishCeremony(op, from, c, key)
      PROVE  IInv'
  <2>1. from \in Nat /\ key \in Nat
    BY AccountBounds, Counts
  <2> QED
    BY <1>3, <2>1, CeremonyFinishes
<1>4. ASSUME NEW code \in Codes, code[2] <= used.sets, handleResetPassword(code) PROVE IInv'
  BY <1>4, ResetArrives
<1>5. ASSUME NEW code \in Codes, code[2] <= used.sets, NEW from \in 1..MaxRequests,
             handleFinishWithRecoveryCode(from, code)
      PROVE  IInv'
  <2>1. from \in Nat
    BY AccountBounds
  <2> QED
    BY <1>5, <2>1, SecondFactorArrives
<1>6. ASSUME NEW l \in DOMAIN links, handleRedeemAccountRecovery(l) PROVE IInv'
  BY <1>6, RedeemArrives
<1>7. ASSUME handleIssueAccountRecovery PROVE IInv'
  BY <1>7, LinkKeeps
<1>8. ASSUME NEW s \in DOMAIN sessions, handleIssueRecoveryCodes(s) PROVE IInv'
  <2>1. s \in Nat
    BY DEF IInv, Typed
  <2> QED
    BY <1>8, <2>1, CodesAsked
<1>9. ASSUME NEW s \in DOMAIN sessions, handleSwitchOrganization(s) PROVE IInv'
  BY <1>9, MoveArrives
<1>10. ASSUME NEW s \in DOMAIN sessions, handleLogout(s) PROVE IInv'
  BY <1>10, LogoutKeeps
<1>11. ASSUME NEW s, NEW k \in Keys, handleDeletePasskey(s, k) PROVE IInv'
  BY <1>11, DeleteKeyKeeps
<1>12. ASSUME NEW s, handleChangePassword(s) PROVE IInv'
  <2>1. RowsTyped' /\ Grows /\ Numbered'
    BY <1>12, Shrinks DEF handleChangePassword, accountVars, IInv, Typed, RowsTyped
  <2>2. sessions' \in Seq(Row) /\ PasswordFits' /\ NoKeySkipped' /\ CutOffByChange'
    BY <1>12, PasswordStays, SessionsStay DEF handleChangePassword, accountVars, IInv, Typed
  <2> QED
    BY <1>12, <2>1, <2>2, QuietStep DEF handleChangePassword, accountVars
<1> QED
  BY <1>1, <1>2, <1>3, <1>4, <1>5, <1>6, <1>7, <1>8, <1>9, <1>10, <1>11, <1>12 DEF Arrives

LEMMA ContinuationsKeep == ASSUME IInv, NEW r \in requests, Continues(r) PROVE IInv'
BY RehashKeeps, CountKeeps, PendingKeeps, SignInKeeps, ClearKeeps, StoreKeeps, TakeKeeps, CheckKeeps,
   PasskeyKeeps, ConsumeKeeps, SpendKeeps, PasswordKeeps, ReplaceKeeps, ReissueKeeps, RetireKeeps, CutKeeps
   DEF Continues

LEMMA NextIInv == IInv /\ [AccountNext]_accountVars => IInv'
<1>1. ASSUME IInv, AccountNext PROVE IInv'
  BY <1>1, ArrivalsKeep, ContinuationsKeep, TimeKeeps DEF AccountNext
<1>2. ASSUME IInv, UNCHANGED accountVars PROVE IInv'
  <2>1. RowsTyped' /\ Grows /\ Numbered'
    BY <1>2, Shrinks DEF accountVars, IInv, Typed, RowsTyped
  <2>2. sessions' \in Seq(Row) /\ PasswordFits' /\ NoKeySkipped' /\ CutOffByChange'
    BY <1>2, PasswordStays, SessionsStay DEF accountVars, IInv, Typed
  <2> QED
    BY <1>2, <2>1, <2>2, QuietStep DEF accountVars
<1> QED
  BY <1>1, <1>2

-----------------------------------------------------------------------------
(* Types and bounds.  Every request sets at most one password or inserts at *)
(* most one session: passwords and sessions stay within the requests made.  *)

\* The requests that may still do so.
Due == {r \in requests : r.at # "retire"}

Tally == IsFiniteSet(requests) /\ chosen + Len(sessions) + Cardinality(Due) <= used.requests

Within ==
  /\ used.requests <= MaxRequests /\ used.keys <= MaxPasskeys /\ used.challenges <= MaxChallenges
  /\ Len(links) <= MaxLinks

\* What a request must know to go on: the purpose of its challenge, or which
\* challenge was answered.
Knows(r) ==
  /\ r.at \in {"clear", "store"} => r.purpose # ""
  /\ r.at = "check" => r.proof # NoProof

AInv == AccountsTypeOK /\ Tally /\ Within /\ \A r \in requests : Knows(r)

LEMMA Amounts ==
  ASSUME IInv
  PROVE  /\ chosen \in Nat /\ Len(sessions) \in Nat /\ used.requests \in Nat /\ used.keys \in Nat
         /\ used.challenges \in Nat /\ used.sets \in Nat /\ used \in Count
BY DEF IInv, Typed, RowsTyped, Count

LEMMA DueIsFinite ==
  ASSUME IsFiniteSet(requests)
  PROVE  IsFiniteSet(Due) /\ Cardinality(Due) \in Nat
<1>1. Due \subseteq requests
  BY DEF Due
<1>. QED
  BY <1>1, FS_Subset, FS_CardinalityType

\* One more, at most.
LEMMA DueArrives ==
  ASSUME IsFiniteSet(requests), NEW d, requests' = requests \cup {d}
  PROVE  IsFiniteSet(requests') /\ Cardinality(Due)' \in Nat /\ Cardinality(Due)' <= Cardinality(Due) + 1
<1>1. IsFiniteSet(requests')
  BY FS_AddElement
<1>2. Due' = Due \/ Due' = Due \cup {d}
  BY DEF Due
<1>3. IsFiniteSet(Due) /\ Cardinality(Due) \in Nat
  BY DueIsFinite
<1>4. Cardinality(Due \cup {d}) = IF d \in Due THEN Cardinality(Due) ELSE Cardinality(Due) + 1
  BY <1>3, FS_AddElement
<1>5. Cardinality(Due)' = Cardinality(Due) \/ Cardinality(Due)' = Cardinality(Due) + 1
  BY <1>2, <1>4
<1>. QED
  BY <1>1, <1>3, <1>5

\* None more; and one less, when it is the session it inserts.
LEMMA DueGoesOn ==
  ASSUME IsFiniteSet(requests), NEW r \in requests, r.at # "retire", NEW d, requests' = (requests \ {r}) \cup {d}
  PROVE  /\ IsFiniteSet(requests') /\ Cardinality(Due)' \in Nat /\ Cardinality(Due)' <= Cardinality(Due)
         /\ d.at = "retire" => Cardinality(Due)' = Cardinality(Due) - 1
<1>1. IsFiniteSet(requests')
  BY FS_AddElement, FS_RemoveElement
<1>2. r \in Due /\ IsFiniteSet(Due) /\ Cardinality(Due) \in Nat
  BY DueIsFinite DEF Due
<1>3. IsFiniteSet(Due \ {r}) /\ Cardinality(Due \ {r}) = Cardinality(Due) - 1
  BY <1>2, FS_RemoveElement
<1>4. Cardinality(Due) - 1 \in Nat
  BY <1>3, FS_CardinalityType
<1>5. CASE d.at = "retire"
  <2>1. Due' = Due \ {r}
    BY <1>5 DEF Due
  <2>. QED
    BY <1>1, <1>2, <1>3, <1>4, <2>1
<1>6. CASE d.at # "retire"
  <2>1. Due' = (Due \ {r}) \cup {d}
    BY <1>6 DEF Due
  <2>2. Cardinality(Due)' = IF d \in Due \ {r} THEN Cardinality(Due) - 1 ELSE (Cardinality(Due) - 1) + 1
    BY <1>3, <2>1, FS_AddElement
  <2>. QED
    BY <1>1, <1>2, <1>4, <1>6, <2>2
<1>. QED
  BY <1>5, <1>6

LEMMA DueEnds ==
  ASSUME IsFiniteSet(requests), NEW r \in requests, Done(r)
  PROVE  /\ IsFiniteSet(requests') /\ Cardinality(Due)' \in Nat /\ Cardinality(Due)' <= Cardinality(Due)
         /\ r.at # "retire" => Cardinality(Due)' = Cardinality(Due) - 1
<1>1. IsFiniteSet(requests') /\ requests' = requests \ {r}
  BY FS_RemoveElement DEF Done
<1>2. IsFiniteSet(Due) /\ Cardinality(Due) \in Nat
  BY DueIsFinite
<1>3. Due' = Due \ {r}
  BY <1>1 DEF Due
<1>4. IsFiniteSet(Due \ {r}) /\ Cardinality(Due \ {r}) = IF r \in Due THEN Cardinality(Due) - 1 ELSE Cardinality(Due)
  BY <1>2, FS_RemoveElement
<1>5. Cardinality(Due \ {r}) \in Nat
  BY <1>4, FS_CardinalityType
<1>6. r.at # "retire" => r \in Due
  BY DEF Due
<1>. QED
  BY <1>1, <1>2, <1>3, <1>4, <1>5, <1>6

\* Nothing set and nothing inserted.
LEMMA TallyStays ==
  ASSUME IInv, Tally, IsFiniteSet(requests'), Cardinality(Due)' \in Nat, Cardinality(Due)' <= Cardinality(Due),
         chosen' = chosen, Len(sessions') = Len(sessions), used'.requests = used.requests
  PROVE  Tally'
<1>1. Cardinality(Due) \in Nat
  BY DueIsFinite DEF Tally
<1>. QED
  BY <1>1, Amounts DEF Tally

\* How many passwords and sessions there may be.
LEMMA TallyBounds ==
  ASSUME IInv, Tally, used.requests <= MaxRequests
  PROVE  chosen \in Passwords /\ Len(sessions) \in 0..MaxRequests
<1>1. Cardinality(Due) \in Nat /\ MaxRequests \in Nat
  BY DueIsFinite, AccountBounds DEF Tally
<1>. QED
  BY <1>1, Amounts DEF Tally, Passwords

-----------------------------------------------------------------------------
(* Typed requests *)

LEMMA Asking == ASSUME AInv, NEW r \in requests PROVE r \in AccountRequest /\ Knows(r)
BY DEF AInv, AccountsTypeOK

LEMMA MovedTyped ==
  ASSUME NEW r \in AccountRequest, NEW at \in Ats
  PROVE  LET d == [r EXCEPT !.at = at] IN
         d \in AccountRequest /\ d.at = at /\ d.purpose = r.purpose /\ d.proof = r.proof
BY DEF AccountRequest, Ats

LEMMA OneMore == ASSUME IInv, used.requests < MaxRequests PROVE used.requests + 1 \in 1..MaxRequests
BY Amounts, AccountBounds

\* A new request, with what its handler fills in.
LEMMA NewTyped ==
  ASSUME IInv, used.requests < MaxRequests, NEW op \in Ops, NEW at \in Ats, NEW pw \in Passwords,
         NEW ks \in SUBSET Keys, NEW key \in Keys \cup {0}, NEW from \in 0..MaxRequests,
         NEW purpose \in {"", "REGISTER", "LOGIN", "SIGNIN"}, NEW proof \in Proofs \cup {NoProof}
  PROVE  [n |-> used.requests + 1, op |-> op, at |-> at, pw |-> pw, keys |-> ks, key |-> key,
          from |-> from, purpose |-> purpose, proof |-> proof] \in AccountRequest
<1>1. used.requests + 1 \in 1..MaxRequests
  BY OneMore
<1>. DEFINE N == 1..MaxRequests
            F == 0..MaxRequests
            P == Proofs \cup {NoProof}
            K == Keys \cup {0}
<1>2. AccountRequest = [n : N, op : Ops, at : Ats, pw : Passwords, keys : SUBSET Keys, key : K, from : F,
                        purpose : {"", "REGISTER", "LOGIN", "SIGNIN"}, proof : P]
  BY DEF AccountRequest, Ops, Ats
<1>. HIDE DEF N, F, P, K
<1>3. used.requests + 1 \in N /\ key \in K /\ from \in F /\ proof \in P
  BY <1>1 DEF N, F, P, K
<1>. QED
  BY <1>2, <1>3

\* A request arrives, and nothing else happens.
LEMMA BeginBounds ==
  ASSUME IInv, AInv, NEW d \in AccountRequest, Knows(d), Begin(d),
         UNCHANGED <<stored, chosen, keys, codes, links, waiting, challenges, sessions, spent, outcomes, cut>>
  PROVE  AInv'
<1>1. used.requests < MaxRequests /\ requests' = requests \cup {d} /\ used' = [used EXCEPT !.requests = @ + 1]
  BY DEF Begin
<1>2. used'.requests = used.requests + 1 /\ used'.keys = used.keys /\ used'.challenges = used.challenges
  BY <1>1, Amounts DEF Count
<1>3. Tally'
  <2>1. IsFiniteSet(requests)
    BY DEF AInv, Tally
  <2>2. Cardinality(Due) \in Nat /\ chosen + Len(sessions) + Cardinality(Due) <= used.requests
    BY <2>1, DueIsFinite DEF AInv, Tally
  <2>3. IsFiniteSet(requests') /\ Cardinality(Due)' \in Nat /\ Cardinality(Due)' <= Cardinality(Due) + 1
    BY <1>1, <2>1, DueArrives
  <2>. QED
    BY <1>2, <2>2, <2>3, Amounts DEF Tally
<1>4. Within'
  BY <1>1, <1>2, Amounts, AccountBounds DEF AInv, Within
<1>5. AccountsTypeOK'
  BY <1>1 DEF AInv, AccountsTypeOK
<1>6. \A r \in requests' : Knows(r)
  BY <1>1 DEF AInv
<1>. QED
  BY <1>3, <1>4, <1>5, <1>6 DEF AInv, Knows

\* A request goes on: what the step leaves of requests and their number.
LEMMA GoOnBounds ==
  ASSUME IInv, AInv, NEW r \in requests, NEW at \in Ats, GoOn(r, at), r.at # "retire",
         at \in {"clear", "store"} => r.purpose # "", at = "check" => r.proof # NoProof
  PROVE  /\ requests' \subseteq AccountRequest /\ \A q \in requests' : Knows(q)
         /\ IsFiniteSet(requests') /\ Cardinality(Due)' \in Nat /\ Cardinality(Due)' <= Cardinality(Due)
         /\ at = "retire" => Cardinality(Due)' = Cardinality(Due) - 1
<1>1. PICK d : d = [r EXCEPT !.at = at]
  OBVIOUS
<1>2. d \in AccountRequest /\ d.at = at /\ d.purpose = r.purpose /\ d.proof = r.proof
  BY <1>1, Asking, MovedTyped
<1>3. requests' = (requests \ {r}) \cup {d}
  BY <1>1 DEF GoOn
<1>4. Knows(d)
  BY <1>2 DEF Knows
<1>5. IsFiniteSet(requests)
  BY DEF AInv, Tally
<1>6. /\ IsFiniteSet(requests') /\ Cardinality(Due)' \in Nat /\ Cardinality(Due)' <= Cardinality(Due)
      /\ d.at = "retire" => Cardinality(Due)' = Cardinality(Due) - 1
  BY <1>3, <1>5, DueGoesOn
<1>. QED
  BY <1>2, <1>3, <1>4, <1>6, Asking

LEMMA DoneBounds ==
  ASSUME AInv, NEW r \in requests, Done(r)
  PROVE  /\ requests' \subseteq AccountRequest /\ \A q \in requests' : Knows(q)
         /\ IsFiniteSet(requests') /\ Cardinality(Due)' \in Nat /\ Cardinality(Due)' <= Cardinality(Due)
         /\ r.at # "retire" => Cardinality(Due)' = Cardinality(Due) - 1
<1>1. requests' \subseteq requests
  BY DEF Done
<1>2. IsFiniteSet(requests)
  BY DEF AInv, Tally
<1>. QED
  BY <1>1, <1>2, Asking, DueEnds

\* What a step that sets no password and inserts no session has to show.
LEMMA BoundsStep ==
  ASSUME IInv, AInv, chosen' = chosen, Len(sessions') = Len(sessions), used'.requests = used.requests,
         used'.keys <= MaxPasskeys, used'.challenges <= MaxChallenges, Len(links') <= MaxLinks,
         requests' \subseteq AccountRequest, \A q \in requests' : Knows(q),
         IsFiniteSet(requests'), Cardinality(Due)' \in Nat, Cardinality(Due)' <= Cardinality(Due),
         AccountsTypeOK'
  PROVE  AInv'
<1>1. Tally'
  BY TallyStays DEF AInv
<1>2. Within'
  BY DEF AInv, Within
<1>3. \A q \in requests' : Knows(q)'
  BY DEF Knows
<1>. QED
  BY <1>1, <1>2, <1>3 DEF AInv

\* The rows of sessions keep their types.
LEMMA RowsOfSessions ==
  ASSUME NEW f \in Seq(Row), \A i \in DOMAIN f : f[i] \in UserSession
  PROVE  f \in Seq(UserSession)
<1>1. DOMAIN f = 1..Len(f) /\ Len(f) \in Nat
  OBVIOUS
<1>2. f = [i \in 1..Len(f) |-> f[i]]
  BY <1>1
<1>. QED
  BY <1>1, <1>2

-----------------------------------------------------------------------------
(* Arrivals *)

LEMMA Nothings ==
  /\ 0 \in Passwords /\ {} \in SUBSET Keys /\ 0 \in Keys \cup {0} /\ 0 \in 0..MaxRequests
  /\ "" \in {"", "REGISTER", "LOGIN", "SIGNIN"} /\ NoProof \in Proofs \cup {NoProof}
BY AccountBounds DEF Passwords

LEMMA LoginBounds == ASSUME IInv, AInv, NEW pw, handleLogin(pw) PROVE AInv'
<1>1. pw \in Passwords /\ keys \in SUBSET Keys /\ used.requests < MaxRequests
  BY DEF handleLogin, Begin, AInv, AccountsTypeOK
<1>2. PICK at \in {"rehash", "count"} : at = IF NeedsRehash(stored) THEN "rehash" ELSE "count"
  OBVIOUS
<1>3. PICK d : d = [Req("login", at) EXCEPT !.pw = pw, !.keys = keys]
  OBVIOUS
<1>4. d = [n |-> used.requests + 1, op |-> "login", at |-> at, pw |-> pw, keys |-> keys, key |-> 0,
           from |-> 0, purpose |-> "", proof |-> NoProof]
  BY <1>3 DEF Req
<1>5. d \in AccountRequest
  <2>1. "login" \in Ops /\ at \in Ats
    BY DEF Ops, Ats
  <2>. QED
    BY <1>1, <1>4, <2>1, NewTyped, Nothings
<1>6. Knows(d)
  BY <1>2, <1>4 DEF Knows
<1>7. Begin(d)
  BY <1>2, <1>3 DEF handleLogin
<1>. QED
  BY <1>5, <1>6, <1>7, BeginBounds DEF handleLogin

LEMMA CeremonyBeginBounds ==
  ASSUME IInv, AInv, NEW purpose \in {"LOGIN", "REGISTER", "SIGNIN"}, NEW from \in 0..MaxRequests,
         BeginCeremony(purpose, from)
  PROVE  AInv'
<1>1. used.requests < MaxRequests
  BY DEF BeginCeremony, Begin
<1>2. PICK at \in {"store", "clear"} : at = IF purpose = "SIGNIN" THEN "store" ELSE "clear"
  OBVIOUS
<1>3. PICK d : d = [Req("begin", at) EXCEPT !.from = from, !.purpose = purpose]
  OBVIOUS
<1>4. d = [n |-> used.requests + 1, op |-> "begin", at |-> at, pw |-> 0, keys |-> {}, key |-> 0,
           from |-> from, purpose |-> purpose, proof |-> NoProof]
  BY <1>3 DEF Req
<1>5. d \in AccountRequest
  <2>1. "begin" \in Ops /\ at \in Ats
    BY DEF Ops, Ats
  <2>. QED
    BY <1>1, <1>4, <2>1, NewTyped, Nothings
<1>6. Knows(d)
  BY <1>2, <1>4 DEF Knows
<1>7. Begin(d)
  BY <1>2, <1>3 DEF BeginCeremony
<1>. QED
  BY <1>5, <1>6, <1>7, BeginBounds DEF BeginCeremony

LEMMA VerifiedTyped == ASSUME AInv, NEW n, Waits(n) PROVE VerifiedBy(n) \in Passwords
<1>1. PICK w \in waiting : w.n = n
  BY DEF Waits
<1>2. (CHOOSE v \in waiting : v.n = n) \in waiting
  BY <1>1
<1>3. waiting \subseteq Waiting
  BY DEF AInv, AccountsTypeOK
<1>. QED
  BY <1>2, <1>3 DEF VerifiedBy, Waiting

LEMMA CeremonyFinishBounds ==
  ASSUME IInv, AInv, NEW op \in {"assert", "register", "passwordless"}, NEW from \in 0..MaxRequests,
         NEW c \in 1..used.challenges, NEW key \in 0..used.keys, FinishCeremony(op, from, c, key)
  PROVE  AInv'
<1>1. used.requests < MaxRequests
  BY DEF FinishCeremony, Begin
<1>2. PICK pw : pw = IF op = "assert" THEN VerifiedBy(from) ELSE 0
  OBVIOUS
<1>3. pw \in Passwords
  BY <1>2, VerifiedTyped, Nothings DEF FinishCeremony
<1>4. PICK p : p = <<"challenge", c>>
  OBVIOUS
<1>5. p \in Proofs
  <2>1. c \in 1..MaxChallenges
    BY Amounts, AccountBounds DEF AInv, Within
  <2>. QED
    BY <1>4, <2>1 DEF Proofs
<1>6. key \in Keys \cup {0}
  BY Amounts, AccountBounds DEF AInv, Within, Keys
<1>7. PICK d : d = [Req(op, "take") EXCEPT !.from = from, !.key = key, !.proof = p,
                      !.purpose = PurposeOf(op), !.pw = pw]
  OBVIOUS
<1>8. d = [n |-> used.requests + 1, op |-> op, at |-> "take", pw |-> pw, keys |-> {}, key |-> key,
           from |-> from, purpose |-> PurposeOf(op), proof |-> p]
  BY <1>7 DEF Req
<1>9. d \in AccountRequest
  <2>1. op \in Ops /\ "take" \in Ats /\ PurposeOf(op) \in {"", "REGISTER", "LOGIN", "SIGNIN"}
    BY DEF Ops, Ats, PurposeOf
  <2>. QED
    BY <1>1, <1>3, <1>5, <1>6, <1>8, <2>1, NewTyped, Nothings
<1>10. Knows(d)
  BY <1>8 DEF Knows
<1>11. Begin(d)
  BY <1>2, <1>4, <1>7 DEF FinishCeremony
<1>. QED
  BY <1>9, <1>10, <1>11, BeginBounds DEF FinishCeremony

\* A request to spend a code or a link.
LEMMA SpenderTyped ==
  ASSUME IInv, AInv, used.requests < MaxRequests, NEW op \in {"second", "reset", "redeem"},
         NEW from \in 0..MaxRequests, NEW p \in Proofs, NEW pw \in Passwords
  PROVE  LET d == [n |-> used.requests + 1, op |-> op, at |-> "spend", pw |-> pw, keys |-> {}, key |-> 0,
                   from |-> from, purpose |-> "", proof |-> p]
         IN  d \in AccountRequest /\ Knows(d)
<1>1. op \in Ops /\ "spend" \in Ats
  BY DEF Ops, Ats
<1>. QED
  BY <1>1, NewTyped, Nothings DEF Knows

LEMMA SecondFactorBounds ==
  ASSUME IInv, AInv, NEW from \in 1..MaxRequests, NEW code \in Codes, handleFinishWithRecoveryCode(from, code)
  PROVE  AInv'
<1>1. used.requests < MaxRequests /\ code \in Proofs /\ from \in 0..MaxRequests
  BY AccountBounds DEF handleFinishWithRecoveryCode, Begin, Proofs
<1>2. PICK pw : pw = VerifiedBy(from)
  OBVIOUS
<1>3. pw \in Passwords
  BY <1>2, VerifiedTyped DEF handleFinishWithRecoveryCode
<1>4. PICK d : d = [Req("second", "spend") EXCEPT !.from = from, !.proof = code, !.pw = pw]
  OBVIOUS
<1>5. d = [n |-> used.requests + 1, op |-> "second", at |-> "spend", pw |-> pw, keys |-> {}, key |-> 0,
           from |-> from, purpose |-> "", proof |-> code]
  BY <1>4 DEF Req
<1>6. d \in AccountRequest /\ Knows(d)
  BY <1>1, <1>3, <1>5, SpenderTyped
<1>7. Begin(d)
  BY <1>2, <1>4 DEF handleFinishWithRecoveryCode
<1>. QED
  BY <1>6, <1>7, BeginBounds DEF handleFinishWithRecoveryCode

LEMMA ResetBounds == ASSUME IInv, AInv, NEW code \in Codes, handleResetPassword(code) PROVE AInv'
<1>1. used.requests < MaxRequests /\ code \in Proofs
  BY DEF handleResetPassword, Begin, Proofs
<1>2. PICK d : d = [Req("reset", "spend") EXCEPT !.proof = code]
  OBVIOUS
<1>3. d = [n |-> used.requests + 1, op |-> "reset", at |-> "spend", pw |-> 0, keys |-> {}, key |-> 0,
           from |-> 0, purpose |-> "", proof |-> code]
  BY <1>2 DEF Req
<1>4. d \in AccountRequest /\ Knows(d)
  BY <1>1, <1>3, SpenderTyped, Nothings
<1>. QED
  BY <1>2, <1>4, BeginBounds DEF handleResetPassword

LEMMA RedeemBounds == ASSUME IInv, AInv, NEW l \in DOMAIN links, handleRedeemAccountRecovery(l) PROVE AInv'
<1>1. used.requests < MaxRequests
  BY DEF handleRedeemAccountRecovery, Begin
<1>2. PICK p : p = <<"link", l>>
  OBVIOUS
<1>3. p \in Proofs
  <2>1. l \in 1..Len(links) /\ Len(links) \in Nat
    BY DEF IInv, Typed, RowsTyped
  <2>2. l \in 1..MaxLinks
    BY <2>1, AccountBounds DEF AInv, Within
  <2>. QED
    BY <1>2, <2>2 DEF Proofs
<1>4. PICK d : d = [Req("redeem", "spend") EXCEPT !.proof = p]
  OBVIOUS
<1>5. d = [n |-> used.requests + 1, op |-> "redeem", at |-> "spend", pw |-> 0, keys |-> {}, key |-> 0,
           from |-> 0, purpose |-> "", proof |-> p]
  BY <1>4 DEF Req
<1>6. d \in AccountRequest /\ Knows(d)
  BY <1>1, <1>3, <1>5, SpenderTyped, Nothings
<1>. QED
  BY <1>2, <1>4, <1>6, BeginBounds DEF handleRedeemAccountRecovery

\* A session has a number among those of the requests.
LEMMA SessionNumber ==
  ASSUME IInv, AInv, NEW s \in DOMAIN sessions
  PROVE  s \in 0..MaxRequests /\ sessions[s] \in UserSession
<1>1. sessions \in Seq(UserSession) /\ Len(sessions) \in 0..MaxRequests
  BY TallyBounds DEF AInv, Within, AccountsTypeOK
<1>2. s \in 1..Len(sessions)
  BY <1>1
<1>. QED
  BY <1>1, <1>2, AccountBounds

LEMMA CodesBounds == ASSUME IInv, AInv, NEW s \in DOMAIN sessions, handleIssueRecoveryCodes(s) PROVE AInv'
<1>1. used.requests < MaxRequests /\ s \in 0..MaxRequests
  BY SessionNumber DEF handleIssueRecoveryCodes, Begin
<1>2. PICK d : d = [Req("codes", "replace") EXCEPT !.from = s]
  OBVIOUS
<1>3. d = [n |-> used.requests + 1, op |-> "codes", at |-> "replace", pw |-> 0, keys |-> {}, key |-> 0,
           from |-> s, purpose |-> "", proof |-> NoProof]
  BY <1>2 DEF Req
<1>4. d \in AccountRequest /\ Knows(d)
  <2>1. "codes" \in Ops /\ "replace" \in Ats
    BY DEF Ops, Ats
  <2>. QED
    BY <1>1, <1>3, <2>1, NewTyped, Nothings DEF Knows
<1>. QED
  BY <1>2, <1>4, BeginBounds DEF handleIssueRecoveryCodes

LEMMA SwitchBounds == ASSUME IInv, AInv, NEW s \in DOMAIN sessions, handleSwitchOrganization(s) PROVE AInv'
<1>1. used.requests < MaxRequests /\ s \in 0..MaxRequests
  BY SessionNumber DEF handleSwitchOrganization, Begin
<1>2. PICK pw : pw = sessions[s].pw
  OBVIOUS
<1>3. pw \in Passwords
  BY <1>2, SessionNumber DEF UserSession
<1>4. PICK d : d = [Req("move", "reissue") EXCEPT !.from = s, !.pw = pw]
  OBVIOUS
<1>5. d = [n |-> used.requests + 1, op |-> "move", at |-> "reissue", pw |-> pw, keys |-> {}, key |-> 0,
           from |-> s, purpose |-> "", proof |-> NoProof]
  BY <1>4 DEF Req
<1>6. d \in AccountRequest /\ Knows(d)
  <2>1. "move" \in Ops /\ "reissue" \in Ats
    BY DEF Ops, Ats
  <2>. QED
    BY <1>1, <1>3, <1>5, <2>1, NewTyped, Nothings DEF Knows
<1>7. Begin(d)
  BY <1>2, <1>4 DEF handleSwitchOrganization
<1>. QED
  BY <1>6, <1>7, BeginBounds DEF handleSwitchOrganization

-----------------------------------------------------------------------------
(* Continuations *)

\* Where the bounds of what is counted stay as they are.
LEMMA SameCounts ==
  ASSUME AInv, used' = used, links' = links
  PROVE  /\ used'.requests = used.requests /\ used'.keys <= MaxPasskeys /\ used'.challenges <= MaxChallenges
         /\ Len(links') <= MaxLinks
BY DEF AInv, Within

LEMMA RehashBounds == ASSUME IInv, AInv, NEW r \in requests, Rehash(r) PROVE AInv'
<1>1. r \in AccountRequest /\ "count" \in Ats
  BY Asking DEF Ats
<1>2. /\ requests' \subseteq AccountRequest /\ \A q \in requests' : Knows(q)
      /\ IsFiniteSet(requests') /\ Cardinality(Due)' \in Nat /\ Cardinality(Due)' <= Cardinality(Due)
  BY <1>1, GoOnBounds DEF Rehash
<1>3. stored' \in [pw : Passwords, old : BOOLEAN]
  <2>1. r.pw \in Passwords
    BY <1>1 DEF AccountRequest
  <2>2. [pw |-> r.pw, old |-> FALSE] \in [pw : Passwords, old : BOOLEAN]
    BY <2>1
  <2>3. stored' \in {stored, [pw |-> r.pw, old |-> FALSE]} /\ stored \in [pw : Passwords, old : BOOLEAN]
    BY DEF Rehash, AInv, AccountsTypeOK
  <2>. QED
    BY <2>2, <2>3, Zenon
<1>4. AccountsTypeOK'
  BY <1>2, <1>3 DEF Rehash, AInv, AccountsTypeOK
<1>. QED
  BY <1>2, <1>4, SameCounts, BoundsStep DEF Rehash

LEMMA CountBounds == ASSUME IInv, AInv, NEW r \in requests, CountPasskeys(r) PROVE AInv'
<1>1. PICK at \in {"ask", "mint"} : GoOn(r, at)
  BY DEF CountPasskeys
<1>2. at \in Ats /\ r.at # "retire"
  BY DEF Ats, CountPasskeys
<1>3. /\ requests' \subseteq AccountRequest /\ \A q \in requests' : Knows(q)
      /\ IsFiniteSet(requests') /\ Cardinality(Due)' \in Nat /\ Cardinality(Due)' <= Cardinality(Due)
  BY <1>1, <1>2, GoOnBounds
<1>4. AccountsTypeOK'
  BY <1>3 DEF CountPasskeys, AInv, AccountsTypeOK
<1>. QED
  BY <1>3, <1>4, SameCounts, BoundsStep DEF CountPasskeys

LEMMA PendingBounds == ASSUME IInv, AInv, NEW r \in requests, CreatePendingMFA(r) PROVE AInv'
<1>1. /\ requests' \subseteq AccountRequest /\ \A q \in requests' : Knows(q)
      /\ IsFiniteSet(requests') /\ Cardinality(Due)' \in Nat /\ Cardinality(Due)' <= Cardinality(Due)
  BY DoneBounds DEF CreatePendingMFA
<1>2. [n |-> r.n, pw |-> r.pw, keys |-> r.keys] \in Waiting
  BY Asking DEF AccountRequest, Waiting
<1>3. AccountsTypeOK'
  BY <1>1, <1>2 DEF CreatePendingMFA, AInv, AccountsTypeOK
<1>. QED
  BY <1>1, <1>3, SameCounts, BoundsStep DEF CreatePendingMFA

\* A session more for a request less.
LEMMA SignInBounds == ASSUME IInv, IInv', AInv, NEW r \in requests, completeSignIn(r) PROVE AInv'
<1>1. /\ requests' \subseteq AccountRequest /\ \A q \in requests' : Knows(q)
      /\ IsFiniteSet(requests') /\ Cardinality(Due)' \in Nat /\ Cardinality(Due)' = Cardinality(Due) - 1
  BY DoneBounds DEF completeSignIn
<1>2. PICK row : row = [pw |-> r.pw, by |-> FactorOf(r), proof |-> r.proof, live |-> TRUE,
                        since |-> chosen, skipped |-> r.keys \cap keys]
  OBVIOUS
<1>3. row \in UserSession
  <2>1. r \in AccountRequest /\ chosen \in Passwords /\ FactorOf(r) \in {"password", "passkey", "code", "passkey-only"}
    BY Asking DEF AInv, AccountsTypeOK, FactorOf
  <2>2. r.pw \in Passwords /\ r.proof \in Proofs \cup {NoProof} /\ r.keys \cap keys \in SUBSET Keys
    BY <2>1 DEF AccountRequest
  <2>. QED
    BY <1>2, <2>1, <2>2 DEF UserSession
<1>4. sessions \in Seq(UserSession) /\ sessions' = Append(sessions, row)
  BY <1>2 DEF completeSignIn, AInv, AccountsTypeOK
<1>5. sessions' \in Seq(UserSession) /\ Len(sessions') = Len(sessions) + 1
  BY <1>3, <1>4
<1>6. UNCHANGED <<stored, chosen, keys, codes, links, waiting, challenges, used, spent, cut>>
  BY DEF completeSignIn
<1>7. Tally'
  <2>1. Cardinality(Due) \in Nat /\ chosen + Len(sessions) + Cardinality(Due) <= used.requests
    BY DueIsFinite DEF AInv, Tally
  <2>. QED
    BY <1>1, <1>5, <1>6, <2>1, Amounts DEF Tally
<1>8. AccountsTypeOK'
  BY <1>1, <1>5, <1>6 DEF AInv, AccountsTypeOK
<1>9. Within'
  BY <1>6 DEF AInv, Within
<1>. QED
  BY <1>1, <1>7, <1>8, <1>9 DEF AInv, Knows

LEMMA ClearBounds == ASSUME IInv, AInv, NEW r \in requests, ClearChallenges(r) PROVE AInv'
<1>1. "store" \in Ats /\ r.purpose # "" /\ GoOn(r, "store") /\ r.at # "retire"
  BY Asking DEF Ats, ClearChallenges, Knows
<1>2. /\ requests' \subseteq AccountRequest /\ \A q \in requests' : Knows(q)
      /\ IsFiniteSet(requests') /\ Cardinality(Due)' \in Nat /\ Cardinality(Due)' <= Cardinality(Due)
  BY <1>1, GoOnBounds
<1>3. AccountsTypeOK'
  BY <1>2 DEF ClearChallenges, AInv, AccountsTypeOK
<1>. QED
  BY <1>2, <1>3, SameCounts, BoundsStep DEF ClearChallenges

LEMMA StoreBounds == ASSUME IInv, AInv, NEW r \in requests, StoreChallenge(r) PROVE AInv'
<1>1. /\ requests' \subseteq AccountRequest /\ \A q \in requests' : Knows(q)
      /\ IsFiniteSet(requests') /\ Cardinality(Due)' \in Nat /\ Cardinality(Due)' <= Cardinality(Due)
  BY DoneBounds DEF StoreChallenge
<1>2. used.challenges + 1 \in 1..MaxChallenges
  <2>1. used.challenges \in Nat
    BY Amounts
  <2>2. used.challenges < MaxChallenges
    BY DEF StoreChallenge
  <2>. QED
    BY <2>1, <2>2, AccountBounds
<1>3. r.purpose \in {"REGISTER", "LOGIN", "SIGNIN"}
  BY Asking DEF StoreChallenge, Knows, AccountRequest
<1>4. [n |-> used.challenges + 1, purpose |-> r.purpose] \in Challenge
  BY <1>2, <1>3 DEF Challenge
<1>5. AccountsTypeOK'
  BY <1>1, <1>4 DEF StoreChallenge, AInv, AccountsTypeOK
<1>6. /\ used'.requests = used.requests /\ used'.keys = used.keys /\ used'.challenges = used.challenges + 1
  BY Amounts DEF StoreChallenge, Count
<1>7. used'.challenges <= MaxChallenges
  BY <1>2, <1>6, AccountBounds
<1>. QED
  BY <1>1, <1>5, <1>6, <1>7, BoundsStep DEF StoreChallenge, AInv, Within

LEMMA TakeBounds == ASSUME IInv, AInv, NEW r \in requests, TakeChallenge(r) PROVE AInv'
<1>1. r.proof # NoProof /\ r.at # "retire" /\ "check" \in Ats
  BY Known DEF RequestFits, TakeChallenge, Ats
<1>2. GoOn(r, "check") \/ Done(r)
  BY DEF TakeChallenge
<1>3. /\ requests' \subseteq AccountRequest /\ \A q \in requests' : Knows(q)
      /\ IsFiniteSet(requests') /\ Cardinality(Due)' \in Nat /\ Cardinality(Due)' <= Cardinality(Due)
  <2>1. CASE GoOn(r, "check")
    BY <1>1, <2>1, GoOnBounds
  <2>2. CASE Done(r)
    BY <2>2, DoneBounds
  <2>. QED
    BY <1>2, <2>1, <2>2
<1>4. challenges' \subseteq challenges /\ (spent' = spent \/ spent' = spent \cup {r.proof})
  BY DEF TakeChallenge, Keeps
<1>5. r.proof \in Proofs
  BY <1>1, Asking DEF AccountRequest
<1>6. AccountsTypeOK'
  BY <1>3, <1>4, <1>5 DEF TakeChallenge, AInv, AccountsTypeOK
<1>. QED
  BY <1>3, <1>6, SameCounts, BoundsStep DEF TakeChallenge

LEMMA CheckBounds == ASSUME IInv, AInv, NEW r \in requests, CheckKey(r) PROVE AInv'
<1>1. r.proof \in spent /\ r.at # "retire"
  BY Asking DEF CheckKey, Knows, Holds, IInv, ProofsFit
<1>2. (\E at \in {"insert", "settle", "mint"} : GoOn(r, at)) \/ Done(r)
  BY DEF CheckKey
<1>3. /\ requests' \subseteq AccountRequest /\ \A q \in requests' : Knows(q)
      /\ IsFiniteSet(requests') /\ Cardinality(Due)' \in Nat /\ Cardinality(Due)' <= Cardinality(Due)
  <2>1. ASSUME NEW at \in {"insert", "settle", "mint"}, GoOn(r, at)
        PROVE  /\ requests' \subseteq AccountRequest /\ \A q \in requests' : Knows(q)
               /\ IsFiniteSet(requests') /\ Cardinality(Due)' \in Nat /\ Cardinality(Due)' <= Cardinality(Due)
    <3>1. at \in Ats /\ at \notin {"clear", "store"} /\ at # "check"
      BY DEF Ats
    <3>. QED
      BY <1>1, <2>1, <3>1, GoOnBounds
  <2>2. CASE Done(r)
    BY <2>2, DoneBounds
  <2>. QED
    BY <1>2, <2>1, <2>2
<1>4. cut' \subseteq spent
  BY <1>1 DEF CheckKey, AInv, AccountsTypeOK
<1>5. AccountsTypeOK'
  BY <1>3, <1>4 DEF CheckKey, AInv, AccountsTypeOK
<1>. QED
  BY <1>3, <1>5, SameCounts, BoundsStep DEF CheckKey

LEMMA PasskeyBounds == ASSUME IInv, AInv, NEW r \in requests, CreatePasskey(r) PROVE AInv'
<1>1. /\ requests' \subseteq AccountRequest /\ \A q \in requests' : Knows(q)
      /\ IsFiniteSet(requests') /\ Cardinality(Due)' \in Nat /\ Cardinality(Due)' <= Cardinality(Due)
  BY DoneBounds DEF CreatePasskey
<1>2. used.keys + 1 \in Keys /\ used.keys + 1 <= MaxPasskeys
  BY Amounts, AccountBounds DEF CreatePasskey, Keys
<1>3. AccountsTypeOK'
  BY <1>1, <1>2 DEF CreatePasskey, AInv, AccountsTypeOK
<1>4. /\ used'.requests = used.requests /\ used'.challenges = used.challenges /\ used'.keys = used.keys + 1
  BY Amounts DEF CreatePasskey, Count
<1>. QED
  BY <1>1, <1>2, <1>3, <1>4, BoundsStep DEF CreatePasskey, AInv, Within

LEMMA ConsumeBounds == ASSUME IInv, AInv, NEW r \in requests, ConsumePendingMFA(r) PROVE AInv'
<1>1. "mint" \in Ats /\ GoOn(r, "mint") /\ r.at # "retire"
  BY DEF Ats, ConsumePendingMFA
<1>2. /\ requests' \subseteq AccountRequest /\ \A q \in requests' : Knows(q)
      /\ IsFiniteSet(requests') /\ Cardinality(Due)' \in Nat /\ Cardinality(Due)' <= Cardinality(Due)
  BY <1>1, GoOnBounds
<1>3. waiting' \subseteq waiting
  BY DEF ConsumePendingMFA
<1>4. AccountsTypeOK'
  BY <1>2, <1>3 DEF ConsumePendingMFA, AInv, AccountsTypeOK
<1>. QED
  BY <1>2, <1>4, SameCounts, BoundsStep DEF ConsumePendingMFA

LEMMA SpendBounds == ASSUME IInv, IInv', AInv, NEW r \in requests, Spend(r) PROVE AInv'
<1>1. r.proof # NoProof /\ r.at # "retire" /\ "settle" \in Ats /\ "set" \in Ats
  BY Known DEF RequestFits, Spend, Ats
<1>2. (\E at \in {"settle", "set"} : GoOn(r, at)) \/ Done(r)
  BY DEF Spend, AfterSpending
<1>3. /\ requests' \subseteq AccountRequest /\ \A q \in requests' : Knows(q)
      /\ IsFiniteSet(requests') /\ Cardinality(Due)' \in Nat /\ Cardinality(Due)' <= Cardinality(Due)
  <2>1. ASSUME NEW at \in {"settle", "set"}, GoOn(r, at)
        PROVE  /\ requests' \subseteq AccountRequest /\ \A q \in requests' : Knows(q)
               /\ IsFiniteSet(requests') /\ Cardinality(Due)' \in Nat /\ Cardinality(Due)' <= Cardinality(Due)
    <3>1. at \in Ats /\ at \notin {"clear", "store"} /\ at # "check"
      BY DEF Ats
    <3>. QED
      BY <1>1, <2>1, <3>1, GoOnBounds
  <2>2. CASE Done(r)
    BY <2>2, DoneBounds
  <2>. QED
    BY <1>2, <2>1, <2>2
<1>4. r.proof \in Proofs
  BY <1>1, Asking DEF AccountRequest
<1>5. /\ spent' \subseteq Proofs /\ spent \subseteq spent' /\ codes' \subseteq codes
      /\ keys' \subseteq keys /\ waiting' \subseteq waiting
  BY <1>4 DEF Spend, AInv, AccountsTypeOK
<1>6. UNCHANGED <<stored, chosen, challenges, sessions, used, outcomes, cut>>
  BY DEF Spend
<1>7. links \in Seq({"open", "used", "closed"}) /\ links' \in Seq({"open", "used", "closed"})
  BY DEF IInv, Typed, RowsTyped
<1>8. Len(links') = Len(links)
  BY <1>7 DEF Spend
<1>9. AccountsTypeOK'
  BY <1>3, <1>5, <1>6, <1>7 DEF AInv, AccountsTypeOK
<1>. QED
  BY <1>3, <1>6, <1>8, <1>9, BoundsStep DEF AInv, Within

\* A password more for a request less.
LEMMA PasswordBounds == ASSUME IInv, IInv', AInv, NEW r \in requests, setPassword(r) PROVE AInv'
<1>1. /\ requests' \subseteq AccountRequest /\ \A q \in requests' : Knows(q)
      /\ IsFiniteSet(requests') /\ Cardinality(Due)' \in Nat /\ Cardinality(Due)' = Cardinality(Due) - 1
  BY DoneBounds DEF setPassword
<1>2. UNCHANGED <<keys, codes, links, waiting, challenges, used, spent, cut>> /\ chosen' = chosen + 1
  BY DEF setPassword
<1>3. sessions \in Seq(UserSession) /\ sessions' \in Seq(Row)
  BY DEF AInv, AccountsTypeOK, IInv, Typed
<1>4. DOMAIN sessions' = DOMAIN sessions
  BY DEF setPassword
<1>5. Len(sessions') = Len(sessions)
  BY <1>3, <1>4
<1>6. Tally'
  <2>1. Cardinality(Due) \in Nat /\ chosen + Len(sessions) + Cardinality(Due) <= used.requests
    BY DueIsFinite DEF AInv, Tally
  <2>. QED
    BY <1>1, <1>2, <1>5, <2>1, Amounts DEF Tally
<1>7. Within'
  BY <1>2 DEF AInv, Within
<1>8. chosen' \in Passwords
  <2>1. used.requests <= MaxRequests /\ Cardinality(Due)' \in Nat
    BY <1>1 DEF AInv, Within
  <2>2. chosen' + Len(sessions') + Cardinality(Due)' <= used.requests
    BY <1>2, <1>6 DEF Tally
  <2>. QED
    BY <1>2, <1>5, <2>1, <2>2, Amounts, AccountBounds DEF Passwords
<1>9. sessions' \in Seq(UserSession)
  <2>1. ASSUME NEW i \in DOMAIN sessions' PROVE sessions'[i] \in UserSession
    <3>1. sessions[i] \in UserSession
      BY <1>3, <1>4, ElementOfSeq
    <3>2. sessions'[i] = [sessions[i] EXCEPT !.live = FALSE]
      <4>1. sessions'[i] = [sessions[i] EXCEPT !.live = @ /\ ~Revokes(i)]
        BY <1>4 DEF setPassword
      <4>2. (sessions[i].live /\ ~Revokes(i)) = FALSE
        BY DEF Revokes
      <4>. QED
        BY <4>1, <4>2
    <3>. QED
      BY <3>1, <3>2 DEF UserSession
  <2>. QED
    BY <1>3, <2>1, RowsOfSessions
<1>10. stored' \in [pw : Passwords, old : BOOLEAN]
  BY <1>2, <1>8 DEF setPassword
<1>11. AccountsTypeOK'
  BY <1>1, <1>2, <1>8, <1>9, <1>10 DEF AInv, AccountsTypeOK
<1>. QED
  BY <1>1, <1>6, <1>7, <1>11 DEF AInv, Knows

LEMMA ReplaceBounds == ASSUME IInv, AInv, NEW r \in requests, ReplaceRecoveryCodes(r) PROVE AInv'
<1>1. /\ requests' \subseteq AccountRequest /\ \A q \in requests' : Knows(q)
      /\ IsFiniteSet(requests') /\ Cardinality(Due)' \in Nat /\ Cardinality(Due)' <= Cardinality(Due)
  BY DoneBounds DEF ReplaceRecoveryCodes
<1>2. used.sets + 1 \in 1..MaxSets
  BY Amounts, AccountBounds DEF ReplaceRecoveryCodes
<1>3. codes' \subseteq Codes
  BY <1>2 DEF ReplaceRecoveryCodes, Codes
<1>4. AccountsTypeOK'
  BY <1>1, <1>3 DEF ReplaceRecoveryCodes, AInv, AccountsTypeOK
<1>5. /\ used'.requests = used.requests /\ used'.challenges = used.challenges /\ used'.keys = used.keys
  BY Amounts DEF ReplaceRecoveryCodes, Count
<1>. QED
  BY <1>1, <1>4, <1>5, BoundsStep DEF ReplaceRecoveryCodes, AInv, Within

\* A session more, for a request that has only to end the one before.
LEMMA ReissueBounds == ASSUME IInv, AInv, NEW r \in requests, Reissue(r) PROVE AInv'
<1>1. "retire" \in Ats /\ GoOn(r, "retire") /\ r.at # "retire" /\ r.from \in DOMAIN sessions
  BY Known DEF Ats, Reissue, RequestFits
<1>2. /\ requests' \subseteq AccountRequest /\ \A q \in requests' : Knows(q)
      /\ IsFiniteSet(requests') /\ Cardinality(Due)' \in Nat /\ Cardinality(Due)' = Cardinality(Due) - 1
  BY <1>1, GoOnBounds
<1>3. PICK row : row = [sessions[r.from] EXCEPT !.live = TRUE, !.since = chosen, !.proof = NoProof, !.skipped = {}]
  OBVIOUS
<1>4. row \in UserSession
  <2>1. sessions[r.from] \in UserSession /\ chosen \in Passwords /\ NoProof \in Proofs \cup {NoProof} /\ {} \in SUBSET Keys
    BY <1>1, SessionNumber DEF AInv, AccountsTypeOK
  <2>. QED
    BY <1>3, <2>1 DEF UserSession
<1>5. sessions \in Seq(UserSession) /\ sessions' = Append(sessions, row)
  BY <1>3 DEF Reissue, AInv, AccountsTypeOK
<1>6. sessions' \in Seq(UserSession) /\ Len(sessions') = Len(sessions) + 1
  BY <1>4, <1>5
<1>7. UNCHANGED <<stored, chosen, keys, codes, links, waiting, challenges, used, spent, cut>>
  BY DEF Reissue
<1>8. Tally'
  <2>1. Cardinality(Due) \in Nat /\ chosen + Len(sessions) + Cardinality(Due) <= used.requests
    BY DueIsFinite DEF AInv, Tally
  <2>. QED
    BY <1>2, <1>6, <1>7, <2>1, Amounts DEF Tally
<1>9. AccountsTypeOK'
  BY <1>2, <1>6, <1>7 DEF AInv, AccountsTypeOK
<1>10. Within'
  BY <1>7 DEF AInv, Within
<1>. QED
  BY <1>2, <1>8, <1>9, <1>10 DEF AInv, Knows

\* A session's end leaves its row where it is.
LEMMA EndTyped ==
  ASSUME IInv, IInv', AInv, NEW s \in DOMAIN sessions,
         sessions' = [sessions EXCEPT ![s] = [@ EXCEPT !.live = FALSE]]
  PROVE  sessions' \in Seq(UserSession) /\ Len(sessions') = Len(sessions)
<1>1. sessions \in Seq(UserSession) /\ sessions' \in Seq(Row) /\ DOMAIN sessions' = DOMAIN sessions
  BY DEF AInv, AccountsTypeOK, IInv, Typed
<1>2. ASSUME NEW i \in DOMAIN sessions' PROVE sessions'[i] \in UserSession
  <2>1. sessions[i] \in UserSession
    BY <1>1, ElementOfSeq
  <2>2. sessions'[i] = sessions[i] \/ sessions'[i] = [sessions[i] EXCEPT !.live = FALSE]
    BY <1>1
  <2>. QED
    BY <2>1, <2>2 DEF UserSession
<1>3. sessions' \in Seq(UserSession)
  BY <1>1, <1>2, RowsOfSessions
<1>4. Len(sessions') = Len(sessions)
  BY <1>1
<1>. QED
  BY <1>3, <1>4

LEMMA RetireBounds == ASSUME IInv, IInv', AInv, NEW r \in requests, Retire(r) PROVE AInv'
<1>1. r.from \in DOMAIN sessions
  BY Known DEF Retire, RequestFits
<1>2. sessions' \in Seq(UserSession) /\ Len(sessions') = Len(sessions)
  BY <1>1, EndTyped DEF Retire
<1>3. /\ requests' \subseteq AccountRequest /\ \A q \in requests' : Knows(q)
      /\ IsFiniteSet(requests') /\ Cardinality(Due)' \in Nat /\ Cardinality(Due)' <= Cardinality(Due)
  BY DoneBounds DEF Retire
<1>4. AccountsTypeOK'
  BY <1>2, <1>3 DEF Retire, AInv, AccountsTypeOK
<1>. QED
  BY <1>2, <1>3, <1>4, SameCounts, BoundsStep DEF Retire

LEMMA CutBounds == ASSUME IInv, AInv, NEW r \in requests, CutOff(r) PROVE AInv'
<1>1. /\ requests' \subseteq AccountRequest /\ \A q \in requests' : Knows(q)
      /\ IsFiniteSet(requests') /\ Cardinality(Due)' \in Nat /\ Cardinality(Due)' <= Cardinality(Due)
  BY DoneBounds DEF CutOff
<1>2. cut' \subseteq spent
  BY DEF CutOff, IInv, ProofsFit, AInv, AccountsTypeOK
<1>3. AccountsTypeOK'
  BY <1>1, <1>2 DEF CutOff, AInv, AccountsTypeOK
<1>. QED
  BY <1>1, <1>3, SameCounts, BoundsStep DEF CutOff

LEMMA LinkBounds == ASSUME IInv, IInv', AInv, handleIssueAccountRecovery PROVE AInv'
<1>1. links \in Seq({"open", "used", "closed"}) /\ links' \in Seq({"open", "used", "closed"})
  BY DEF IInv, Typed, RowsTyped
<1>2. PICK closed : closed = [l \in DOMAIN links |-> IF links[l] = "open" THEN "closed" ELSE links[l]]
  OBVIOUS
<1>3. closed \in Seq({"open", "used", "closed"}) /\ Len(closed) = Len(links)
  <2>1. DOMAIN links = 1..Len(links) /\ Len(links) \in Nat
    BY <1>1
  <2>2. \A l \in DOMAIN links : links[l] \in {"open", "used", "closed"}
    BY <1>1, ElementOfSeq
  <2>. QED
    BY <1>2, <2>1, <2>2
<1>4. links' = Append(closed, "open")
  BY <1>2 DEF handleIssueAccountRecovery
<1>5. Len(links') = Len(links) + 1
  BY <1>3, <1>4
<1>6. UNCHANGED <<stored, chosen, keys, codes, waiting, challenges, sessions, requests, used, spent, outcomes, cut>>
  BY DEF handleIssueAccountRecovery
<1>7. Len(links') <= MaxLinks
  BY <1>1, <1>5, AccountBounds DEF handleIssueAccountRecovery
<1>8. AccountsTypeOK'
  BY <1>1, <1>6 DEF AInv, AccountsTypeOK
<1>. QED
  BY <1>6, <1>7, <1>8 DEF AInv, Tally, Due, Within, Knows

LEMMA LogoutBounds == ASSUME IInv, IInv', AInv, NEW s \in DOMAIN sessions, handleLogout(s) PROVE AInv'
<1>1. sessions' \in Seq(UserSession) /\ Len(sessions') = Len(sessions)
  BY EndTyped DEF handleLogout
<1>2. UNCHANGED <<stored, chosen, keys, codes, links, waiting, challenges, requests, used, spent, outcomes, cut>>
  BY DEF handleLogout
<1>3. AccountsTypeOK'
  BY <1>1, <1>2 DEF AInv, AccountsTypeOK
<1>. QED
  BY <1>1, <1>2, <1>3 DEF AInv, Tally, Due, Within, Knows

LEMMA DeleteKeyBounds == ASSUME AInv, NEW s, NEW k, handleDeletePasskey(s, k) PROVE AInv'
BY DEF handleDeletePasskey, AInv, AccountsTypeOK, Tally, Due, Within, Knows

LEMMA TimeBounds == ASSUME IInv, IInv', AInv, TimePasses PROVE AInv'
<1>1. links \in Seq({"open", "used", "closed"}) /\ links' \in Seq({"open", "used", "closed"})
  BY DEF IInv, Typed, RowsTyped
<1>2. /\ DOMAIN links' = DOMAIN links /\ waiting' \subseteq waiting /\ challenges' \subseteq challenges
  BY DEF TimePasses, Lapses
<1>3. Len(links') = Len(links)
  BY <1>1, <1>2
<1>4. UNCHANGED <<stored, chosen, keys, codes, sessions, requests, used, spent, outcomes, cut>>
  BY DEF TimePasses
<1>5. AccountsTypeOK'
  BY <1>1, <1>2, <1>4 DEF AInv, AccountsTypeOK
<1>. QED
  BY <1>3, <1>4, <1>5 DEF AInv, Tally, Due, Within, Knows

LEMMA NothingBounds == ASSUME AInv, UNCHANGED accountVars PROVE AInv'
BY DEF accountVars, AInv, AccountsTypeOK, Tally, Due, Within, Knows

LEMMA ArrivalsBound == ASSUME IInv, IInv', AInv, Arrives PROVE AInv'
<1>1. ASSUME NEW pw \in 0..chosen, handleLogin(pw) PROVE AInv'
  BY <1>1, LoginBounds
<1>2. ASSUME NEW p \in {"LOGIN", "REGISTER", "SIGNIN"}, NEW from \in 0..MaxRequests, BeginCeremony(p, from)
      PROVE  AInv'
  BY <1>2, CeremonyBeginBounds
<1>3. ASSUME NEW op \in {"assert", "register", "passwordless"}, NEW from \in 0..MaxRequests,
             NEW c \in 1..used.challenges, NEW key \in 0..used.keys, FinishCeremony(op, from, c, key)
      PROVE  AInv'
  BY <1>3, CeremonyFinishBounds
<1>4. ASSUME NEW code \in Codes, handleResetPassword(code) PROVE AInv'
  BY <1>4, ResetBounds
<1>5. ASSUME NEW code \in Codes, NEW from \in 1..MaxRequests, handleFinishWithRecoveryCode(from, code) PROVE AInv'
  BY <1>5, SecondFactorBounds
<1>6. ASSUME NEW l \in DOMAIN links, handleRedeemAccountRecovery(l) PROVE AInv'
  BY <1>6, RedeemBounds
<1>7. ASSUME NEW s \in DOMAIN sessions, handleIssueRecoveryCodes(s) PROVE AInv'
  BY <1>7, CodesBounds
<1>8. ASSUME NEW s \in DOMAIN sessions, handleSwitchOrganization(s) PROVE AInv'
  BY <1>8, SwitchBounds
<1>9. ASSUME NEW s \in DOMAIN sessions, handleLogout(s) PROVE AInv'
  BY <1>9, LogoutBounds
<1>10. ASSUME NEW s, NEW k, handleDeletePasskey(s, k) PROVE AInv'
  BY <1>10, DeleteKeyBounds
<1>11. ASSUME NEW s, handleChangePassword(s) PROVE AInv'
  BY <1>11, NothingBounds DEF handleChangePassword
<1>. QED
  BY <1>1, <1>2, <1>3, <1>4, <1>5, <1>6, <1>7, <1>8, <1>9, <1>10, <1>11, LinkBounds DEF Arrives

LEMMA ContinuationsBound == ASSUME IInv, IInv', AInv, NEW r \in requests, Continues(r) PROVE AInv'
BY RehashBounds, CountBounds, PendingBounds, SignInBounds, ClearBounds, StoreBounds, TakeBounds, CheckBounds,
   PasskeyBounds, ConsumeBounds, SpendBounds, PasswordBounds, ReplaceBounds, ReissueBounds, RetireBounds, CutBounds
   DEF Continues

LEMMA NextAInv == IInv /\ IInv' /\ AInv /\ [AccountNext]_accountVars => AInv'
BY ArrivalsBound, ContinuationsBound, TimeBounds, NothingBounds DEF AccountNext

LEMMA InitAInv == AccountInit => AInv
<1> SUFFICES ASSUME AccountInit PROVE AInv
  OBVIOUS
<1>1. /\ stored \in {[pw |-> 0, old |-> o] : o \in BOOLEAN} /\ chosen = 0 /\ keys \in {{}, Keys \cap {1}}
      /\ codes = {<<"code", 1, 1>>, <<"code", 1, 2>>}
      /\ requests = {} /\ challenges = {} /\ spent = {} /\ cut = {} /\ waiting = {}
      /\ sessions = << >> /\ links = << >>
      /\ used = [requests |-> 0, keys |-> Cardinality(keys), sets |-> 1, challenges |-> 0]
  BY DEF AccountInit
<1>2. IInv
  BY InitIInv
<1>3. Cardinality(keys) <= MaxPasskeys
  <2>1. CASE keys = {}
    BY <2>1, FS_EmptySet, AccountBounds
  <2>2. CASE keys # {}
    <3>1. keys = {1} /\ 1 \in 1..MaxPasskeys
      BY <1>1, <2>2 DEF Keys
    <3>2. Cardinality({1}) = 1
      BY FS_Singleton
    <3>. QED
      BY <3>1, <3>2, AccountBounds
  <2>. QED
    BY <2>1, <2>2
<1>4. Within
  BY <1>1, <1>3, AccountBounds DEF Within
<1>5. Tally
  <2>1. Due = {}
    BY <1>1 DEF Due
  <2>2. IsFiniteSet({}) /\ Cardinality({}) = 0
    BY FS_EmptySet
  <2>. QED
    BY <1>1, <2>1, <2>2 DEF Tally
<1>6. AccountsTypeOK
  <2>1. 0 \in Passwords /\ 1 \in 1..MaxSets
    BY AccountBounds DEF Passwords
  <2>2. stored \in [pw : Passwords, old : BOOLEAN] /\ chosen \in Passwords
    BY <1>1, <2>1
  <2>3. codes \subseteq Codes /\ keys \subseteq Keys
    BY <1>1, <2>1 DEF Codes
  <2>4. links \in Seq({"open", "used", "closed"}) /\ sessions \in Seq(UserSession)
    BY <1>1
  <2>. QED
    BY <1>1, <2>2, <2>3, <2>4 DEF AccountsTypeOK
<1>. QED
  BY <1>1, <1>4, <1>5, <1>6 DEF AInv

-----------------------------------------------------------------------------
(* Every proof is used once: the steps of SingleUse *)

\* What a request is says what it spends, and what that may be for.
Claim(r) ==
  /\ r.op \in {"register", "assert", "passwordless"} => r.proof[1] = "challenge"
  /\ r.op \in {"second", "reset"} => r.proof[1] = "code"
  /\ r.op = "redeem" => r.proof[1] = "link"
  /\ r.at = "set" => r.op \in {"reset", "redeem"}
  /\ r.at = "insert" => r.op = "register"

Claims == \A r \in requests : Claim(r)

Unheld(d) == requests' = requests \cup {d} /\ ~Holds(d) /\ Claim(d)

Arrived == requests' = requests \/ \E d : Unheld(d)

LEMMA PlainArrives ==
  ASSUME NEW d, Begin(d), d.proof = NoProof, d.op \in {"login", "begin", "codes", "move"},
         d.at \in {"rehash", "count", "store", "clear", "replace", "reissue"}
  PROVE  Unheld(d)
BY DEF Unheld, Begin, Holds, Claim

Spender(d) ==
  /\ d.at \in {"take", "spend"}
  /\ \/ d.op \in {"register", "assert", "passwordless"} /\ d.proof[1] = "challenge"
     \/ d.op \in {"second", "reset"} /\ d.proof[1] = "code"
     \/ d.op = "redeem" /\ d.proof[1] = "link"

LEMMA SpenderArrives == ASSUME NEW d, Begin(d), Spender(d) PROVE Unheld(d)
BY DEF Unheld, Begin, Spender, Holds, Claim

LEMMA ArrivalsHoldNothing == ASSUME Arrives PROVE Arrived /\ UNCHANGED <<spent, outcomes, cut>>
<1>1. ASSUME NEW pw, handleLogin(pw) PROVE Arrived
  <2>1. PICK d : d = [Req("login", IF NeedsRehash(stored) THEN "rehash" ELSE "count") EXCEPT !.pw = pw, !.keys = keys]
    OBVIOUS
  <2>2. d.proof = NoProof /\ d.op = "login" /\ d.at \in {"rehash", "count"}
    BY <2>1 DEF Req
  <2>. QED
    BY <1>1, <2>1, <2>2, PlainArrives DEF handleLogin, Arrived
<1>2. ASSUME NEW p, NEW from, BeginCeremony(p, from) PROVE Arrived
  <2>1. PICK d : d = [Req("begin", IF p = "SIGNIN" THEN "store" ELSE "clear") EXCEPT !.from = from, !.purpose = p]
    OBVIOUS
  <2>2. d.proof = NoProof /\ d.op = "begin" /\ d.at \in {"store", "clear"}
    BY <2>1 DEF Req
  <2>. QED
    BY <1>2, <2>1, <2>2, PlainArrives DEF BeginCeremony, Arrived
<1>3. ASSUME NEW op \in {"assert", "register", "passwordless"}, NEW from, NEW c, NEW key, FinishCeremony(op, from, c, key)
      PROVE  Arrived
  <2>1. PICK pw : pw = IF op = "assert" THEN VerifiedBy(from) ELSE 0
    OBVIOUS
  <2>2. PICK d : d = [Req(op, "take") EXCEPT !.from = from, !.key = key, !.proof = <<"challenge", c>>,
                        !.purpose = PurposeOf(op), !.pw = pw]
    OBVIOUS
  <2>3. d.proof = <<"challenge", c>> /\ d.op = op /\ d.at = "take"
    BY <2>2 DEF Req
  <2>4. Begin(d)
    BY <1>3, <2>1, <2>2 DEF FinishCeremony
  <2>5. Spender(d)
    BY <2>3 DEF Spender
  <2>. QED
    BY <2>4, <2>5, SpenderArrives DEF Arrived
<1>4. ASSUME NEW code \in Codes, handleResetPassword(code) PROVE Arrived
  <2>1. PICK d : d = [Req("reset", "spend") EXCEPT !.proof = code]
    OBVIOUS
  <2>2. d.proof = code /\ d.op = "reset" /\ d.at = "spend" /\ code[1] = "code"
    BY <2>1 DEF Req, Codes
  <2>3. Begin(d) /\ Spender(d)
    BY <1>4, <2>1, <2>2 DEF handleResetPassword, Spender
  <2>. QED
    BY <2>3, SpenderArrives DEF Arrived
<1>5. ASSUME NEW code \in Codes, NEW from, handleFinishWithRecoveryCode(from, code) PROVE Arrived
  <2>1. PICK pw : pw = VerifiedBy(from)
    OBVIOUS
  <2>2. PICK d : d = [Req("second", "spend") EXCEPT !.from = from, !.proof = code, !.pw = pw]
    OBVIOUS
  <2>3. d.proof = code /\ d.op = "second" /\ d.at = "spend" /\ code[1] = "code"
    BY <2>2 DEF Req, Codes
  <2>4. Begin(d)
    BY <1>5, <2>1, <2>2 DEF handleFinishWithRecoveryCode
  <2>5. Spender(d)
    BY <2>3 DEF Spender
  <2>. QED
    BY <2>4, <2>5, SpenderArrives DEF Arrived
<1>6. ASSUME NEW l, handleRedeemAccountRecovery(l) PROVE Arrived
  <2>1. PICK d : d = [Req("redeem", "spend") EXCEPT !.proof = <<"link", l>>]
    OBVIOUS
  <2>2. d.proof = <<"link", l>> /\ d.op = "redeem" /\ d.at = "spend"
    BY <2>1 DEF Req
  <2>3. Begin(d) /\ Spender(d)
    BY <1>6, <2>1, <2>2 DEF handleRedeemAccountRecovery, Spender
  <2>. QED
    BY <2>3, SpenderArrives DEF Arrived
<1>7. ASSUME NEW s, handleIssueRecoveryCodes(s) PROVE Arrived
  <2>1. PICK d : d = [Req("codes", "replace") EXCEPT !.from = s]
    OBVIOUS
  <2>2. d.proof = NoProof /\ d.op = "codes" /\ d.at = "replace"
    BY <2>1 DEF Req
  <2>. QED
    BY <1>7, <2>1, <2>2, PlainArrives DEF handleIssueRecoveryCodes, Arrived
<1>8. ASSUME NEW s, handleSwitchOrganization(s) PROVE Arrived
  <2>1. PICK d : d = [Req("move", "reissue") EXCEPT !.from = s, !.pw = sessions[s].pw]
    OBVIOUS
  <2>2. d.proof = NoProof /\ d.op = "move" /\ d.at = "reissue"
    BY <2>1 DEF Req
  <2>. QED
    BY <1>8, <2>1, <2>2, PlainArrives DEF handleSwitchOrganization, Arrived
<1>9. handleIssueAccountRecovery => Arrived
  BY DEF handleIssueAccountRecovery, Arrived
<1>10. ASSUME NEW s, handleChangePassword(s) \/ handleLogout(s) \/ \E k \in Keys : handleDeletePasskey(s, k) PROVE Arrived
  BY <1>10 DEF handleChangePassword, accountVars, handleLogout, handleDeletePasskey, Arrived
<1>11. Arrived
  BY <1>1, <1>2, <1>3, <1>4, <1>5, <1>6, <1>7, <1>8, <1>9, <1>10 DEF Arrives
<1>12. UNCHANGED <<spent, outcomes, cut>>
  BY DEF Arrives, handleLogin, BeginCeremony, FinishCeremony, handleResetPassword, handleFinishWithRecoveryCode,
         handleRedeemAccountRecovery, handleIssueAccountRecovery, handleIssueRecoveryCodes, handleChangePassword,
         accountVars, handleSwitchOrganization, handleLogout, handleDeletePasskey
<1>. QED
  BY <1>11, <1>12

\* What a step leaves of the proofs that are held.
LEMMA HeldArrive ==
  ASSUME NEW d, requests' = requests \cup {d}, ~Holds(d)
  PROVE  Held' = Held
BY DEF Held, Holds

LEMMA HeldLeave ==
  ASSUME NEW r \in requests, Done(r), ~Holds(r)
  PROVE  Held' = Held
BY DEF Held, Holds, Done

LEMMA HeldMoves ==
  ASSUME NEW r \in requests, NEW d, requests' = (requests \ {r}) \cup {d}, d.proof = r.proof, Holds(r) <=> Holds(d)
  PROVE  Held' = Held
<1>1. \A p : (\E q \in requests' : Holds(q) /\ q.proof = p) <=> (\E q \in requests : Holds(q) /\ q.proof = p)
  OBVIOUS
<1>. QED
  BY <1>1 DEF Held, Holds

LEMMA HeldGains ==
  ASSUME NEW r \in requests, NEW d, requests' = (requests \ {r}) \cup {d}, d.proof = r.proof, ~Holds(r), Holds(d)
  PROVE  Held' = Held \cup {r.proof}
<1>1. \A p : (\E q \in requests' : Holds(q) /\ q.proof = p) <=> p = r.proof \/ (\E q \in requests : Holds(q) /\ q.proof = p)
  OBVIOUS
<1>. QED
  BY <1>1 DEF Held, Holds

LEMMA HeldLoses ==
  ASSUME ProofsFit, NEW r \in requests, Done(r), Holds(r)
  PROVE  r.proof \in Held /\ Held' = Held \ {r.proof}
<1>1. \A q \in requests : Holds(q) /\ q.proof = r.proof => q = r
  BY DEF ProofsFit
<1>2. \A p : (\E q \in requests' : Holds(q) /\ q.proof = p) <=> p # r.proof /\ (\E q \in requests : Holds(q) /\ q.proof = p)
  BY <1>1 DEF Done
<1>. QED
  BY <1>2 DEF Held, Holds

-----------------------------------------------------------------------------
\* A step of the ledger, or none.
Booked == Ledger!Next \/ UNCHANGED Ledger!singleUseVars

LEMMA NothingBooked ==
  ASSUME Held' = Held, UNCHANGED <<spent, outcomes, cut>>
  PROVE  Booked
BY DEF Booked, Ledger!singleUseVars

\* The claim of a request that goes on.
LEMMA ClaimsGoOn ==
  ASSUME Claims, NEW r \in requests, r \in Rec, NEW at \in Ats, GoOn(r, at),
         at = "set" => r.op \in {"reset", "redeem"}, at = "insert" => r.op = "register"
  PROVE  Claims'
<1>1. PICK d : d = [r EXCEPT !.at = at]
  OBVIOUS
<1>2. d.at = at /\ d.op = r.op /\ d.proof = r.proof
  BY <1>1, Moved
<1>3. Claim(d)
  BY <1>2 DEF Claims, Claim
<1>4. requests' = (requests \ {r}) \cup {d}
  BY <1>1 DEF GoOn
<1>. QED
  BY <1>3, <1>4 DEF Claims, Claim

LEMMA ClaimsLeave == ASSUME Claims, requests' \subseteq requests PROVE Claims'
BY DEF Claims, Claim

\* A request that goes on with what it holds, or still without.
LEMMA GoesOnUnbooked ==
  ASSUME NEW r \in requests, r \in Rec, NEW at \in Ats, GoOn(r, at),
         r.at \notin {"take", "spend"}, at \notin {"take", "spend"}, UNCHANGED <<spent, outcomes, cut>>
  PROVE  Booked
<1>1. PICK d : d = [r EXCEPT !.at = at]
  OBVIOUS
<1>2. d.at = at /\ d.proof = r.proof
  BY <1>1, Moved
<1>3. requests' = (requests \ {r}) \cup {d}
  BY <1>1 DEF GoOn
<1>4. Holds(r) <=> Holds(d)
  BY <1>2 DEF Holds
<1>5. Held' = Held
  BY <1>2, <1>3, <1>4, HeldMoves
<1>. QED
  BY <1>5, NothingBooked

LEMMA LeavesUnbooked ==
  ASSUME NEW r \in requests, Done(r), ~Holds(r), UNCHANGED <<spent, outcomes, cut>>
  PROVE  Booked
BY HeldLeave, NothingBooked

LEMMA SpendingBooked ==
  ASSUME IInv, AInv, NEW r \in requests, NEW at \in Ats, GoOn(r, at), r.at \in {"take", "spend"},
         at \notin {"take", "spend"}, r.proof \notin spent, spent' = spent \cup {r.proof},
         UNCHANGED <<outcomes, cut>>
  PROVE  Booked
<1>1. r \in Rec /\ r.proof # NoProof
  BY Known DEF RequestFits
<1>2. r.proof \in Proofs
  BY <1>1, Asking DEF AccountRequest
<1>3. PICK d : d = [r EXCEPT !.at = at]
  OBVIOUS
<1>4. d.at = at /\ d.proof = r.proof
  BY <1>1, <1>3, Moved
<1>5. requests' = (requests \ {r}) \cup {d}
  BY <1>3 DEF GoOn
<1>6. ~Holds(r) /\ Holds(d)
  BY <1>1, <1>4 DEF Holds
<1>7. Held' = Held \cup {r.proof}
  BY <1>4, <1>5, <1>6, HeldGains
<1>8. Ledger!Spend(r.proof)
  BY <1>7 DEF Ledger!Spend
<1>. QED
  BY <1>2, <1>8 DEF Booked, Ledger!Next

LEMMA BringingBooked ==
  ASSUME IInv, AInv, NEW r \in requests, Done(r), r.at \notin {"take", "spend"}, NEW what,
         r.proof # NoProof => what \in Ledger!GoodFor(r.proof), Brings(r, what), UNCHANGED <<spent, cut>>
  PROVE  Booked
<1>1. CASE r.proof = NoProof
  BY <1>1, LeavesUnbooked DEF Holds, Brings
<1>2. CASE r.proof # NoProof
  <2>1. r.proof \in Proofs /\ r.n \in 1..MaxRequests
    BY <1>2, Asking DEF AccountRequest
  <2>2. r.proof \in Held /\ Held' = Held \ {r.proof}
    BY <1>2, HeldLoses DEF Holds, IInv
  <2>3. outcomes' = outcomes \cup {<<r.proof, r.n, what>>}
    BY <1>2 DEF Brings
  <2>4. Ledger!Bring(r.proof, r.n, what)
    BY <2>2, <2>3 DEF Ledger!Bring
  <2>. QED
    BY <1>2, <2>1, <2>4 DEF Booked, Ledger!Next
<1>. QED
  BY <1>1, <1>2

LEMMA LosingBooked ==
  ASSUME IInv, AInv, NEW r \in requests, Done(r), Holds(r), cut' = cut \cup {r.proof}, UNCHANGED <<spent, outcomes>>
  PROVE  Booked
<1>1. r.proof \in Proofs
  BY Asking DEF AccountRequest, Holds
<1>2. r.proof \in Held /\ Held' = Held \ {r.proof}
  BY HeldLoses DEF IInv
<1>3. Ledger!Lose(r.proof)
  BY <1>2 DEF Ledger!Lose
<1>. QED
  BY <1>1, <1>3 DEF Booked, Ledger!Next

-----------------------------------------------------------------------------
(* Every step is one of SingleUse, or none *)

LEMMA RehashBooks == ASSUME IInv, Claims, NEW r \in requests, Rehash(r) PROVE Booked /\ Claims'
<1>1. r \in Rec /\ "count" \in Ats
  BY Known DEF Ats
<1>. QED
  BY <1>1, GoesOnUnbooked, ClaimsGoOn DEF Rehash

LEMMA CountBooks == ASSUME IInv, Claims, NEW r \in requests, CountPasskeys(r) PROVE Booked /\ Claims'
<1>1. PICK at \in {"ask", "mint"} : GoOn(r, at)
  BY DEF CountPasskeys
<1>2. r \in Rec /\ at \in Ats
  BY Known DEF Ats
<1>. QED
  BY <1>1, <1>2, GoesOnUnbooked, ClaimsGoOn DEF CountPasskeys

LEMMA ClearBooks == ASSUME IInv, Claims, NEW r \in requests, ClearChallenges(r) PROVE Booked /\ Claims'
<1>1. r \in Rec /\ "store" \in Ats
  BY Known DEF Ats
<1>. QED
  BY <1>1, GoesOnUnbooked, ClaimsGoOn DEF ClearChallenges

LEMMA ConsumeBooks == ASSUME IInv, Claims, NEW r \in requests, ConsumePendingMFA(r) PROVE Booked /\ Claims'
<1>1. r \in Rec /\ "mint" \in Ats
  BY Known DEF Ats
<1>. QED
  BY <1>1, GoesOnUnbooked, ClaimsGoOn DEF ConsumePendingMFA

LEMMA ReissueBooks == ASSUME IInv, Claims, NEW r \in requests, Reissue(r) PROVE Booked /\ Claims'
<1>1. r \in Rec /\ "retire" \in Ats
  BY Known DEF Ats
<1>. QED
  BY <1>1, GoesOnUnbooked, ClaimsGoOn DEF Reissue

LEMMA EndBooks ==
  ASSUME IInv, Claims, NEW r \in requests,
         CreatePendingMFA(r) \/ StoreChallenge(r) \/ ReplaceRecoveryCodes(r) \/ Retire(r)
  PROVE  Booked /\ Claims'
<1>1. Done(r) /\ UNCHANGED <<spent, outcomes, cut>> /\ r.at \in {"ask", "store", "replace", "retire"}
  BY DEF CreatePendingMFA, StoreChallenge, ReplaceRecoveryCodes, Retire
<1>2. ~Holds(r)
  BY <1>1, Known DEF RequestFits, Holds
<1>. QED
  BY <1>1, <1>2, LeavesUnbooked, ClaimsLeave DEF Done

LEMMA CutBooks == ASSUME IInv, AInv, Claims, NEW r \in requests, CutOff(r) PROVE Booked /\ Claims'
<1>1. CASE Holds(r)
  BY <1>1, LosingBooked, ClaimsLeave DEF CutOff, Done
<1>2. CASE ~Holds(r)
  BY <1>2, LeavesUnbooked, ClaimsLeave DEF CutOff, Done
<1>. QED
  BY <1>1, <1>2

LEMMA CheckBooks == ASSUME IInv, AInv, Claims, NEW r \in requests, CheckKey(r) PROVE Booked /\ Claims'
<1>1. r \in Rec /\ r.at = "check" /\ Holds(r)
  BY Known, Asking DEF CheckKey, Knows, Holds
<1>2. CASE r.op = "register" \/ (r.key \in keys /\ (r.op = "assert" \/ Cardinality(keys) >= 2 \/ codes # {}))
  <2>1. PICK at \in {"insert", "settle", "mint"} :
          /\ at = (IF r.op = "register" THEN "insert" ELSE IF r.op = "assert" THEN "settle" ELSE "mint")
          /\ GoOn(r, at) /\ UNCHANGED cut
    BY <1>2 DEF CheckKey
  <2>2. at \in Ats
    BY DEF Ats
  <2>. QED
    BY <1>1, <2>1, <2>2, GoesOnUnbooked, ClaimsGoOn DEF CheckKey
<1>3. CASE ~(r.op = "register" \/ (r.key \in keys /\ (r.op = "assert" \/ Cardinality(keys) >= 2 \/ codes # {})))
  <2>1. Done(r) /\ cut' = cut \cup {r.proof}
    BY <1>3 DEF CheckKey
  <2>. QED
    BY <1>1, <2>1, LosingBooked, ClaimsLeave DEF CheckKey, Done
<1>. QED
  BY <1>2, <1>3

LEMMA SignInBooks == ASSUME IInv, AInv, Claims, NEW r \in requests, completeSignIn(r) PROVE Booked /\ Claims'
<1>1. r.at = "mint" /\ RequestFits(r) /\ Claim(r)
  BY Known DEF completeSignIn, Claims
<1>2. r.proof # NoProof => "session" \in Ledger!GoodFor(r.proof)
  BY <1>1 DEF RequestFits, Claim, Ledger!GoodFor
<1>. QED
  BY <1>1, <1>2, BringingBooked, ClaimsLeave DEF completeSignIn, Done

LEMMA PasskeyBooks == ASSUME IInv, AInv, Claims, NEW r \in requests, CreatePasskey(r) PROVE Booked /\ Claims'
<1>1. r.at = "insert" /\ Claim(r)
  BY DEF CreatePasskey, Claims
<1>2. "key" \in Ledger!GoodFor(r.proof)
  BY <1>1 DEF Claim, Ledger!GoodFor
<1>. QED
  BY <1>1, <1>2, BringingBooked, ClaimsLeave DEF CreatePasskey, Done

LEMMA PasswordBooks == ASSUME IInv, AInv, Claims, NEW r \in requests, setPassword(r) PROVE Booked /\ Claims'
<1>1. r.at = "set" /\ Claim(r)
  BY DEF setPassword, Claims
<1>2. "password" \in Ledger!GoodFor(r.proof)
  BY <1>1 DEF Claim, Ledger!GoodFor
<1>. QED
  BY <1>1, <1>2, BringingBooked, ClaimsLeave DEF setPassword, Done

\* A challenge that is there was not spent.
LEMMA TakeBooks == ASSUME IInv, AInv, Claims, NEW r \in requests, TakeChallenge(r) PROVE Booked /\ Claims'
<1> DEFINE rows == {c \in challenges : c.purpose = r.purpose}
           mine == {c \in rows : <<"challenge", c.n>> = r.proof}
<1>1. r \in Rec /\ r.at = "take" /\ r.proof[1] = "challenge" /\ "check" \in Ats
  BY Known DEF TakeChallenge, RequestFits, Ats
<1>2. CASE Done(r) /\ UNCHANGED spent
  <2>1. ~Holds(r)
    BY <1>1 DEF Holds
  <2>. QED
    BY <1>2, <2>1, LeavesUnbooked, ClaimsLeave DEF TakeChallenge, Done
<1>3. CASE mine # {} /\ GoOn(r, "check") /\ spent' = spent \cup {r.proof}
  <2>1. PICK c \in challenges : <<"challenge", c.n>> = r.proof
    BY <1>3
  <2>2. r.proof[2] = c.n
    BY <2>1
  <2>3. r.proof \notin spent
    BY <1>1, <2>1, <2>2 DEF IInv, Gone
  <2>. QED
    BY <1>1, <1>3, <2>3, SpendingBooked, ClaimsGoOn DEF TakeChallenge
<1>4. (Done(r) /\ UNCHANGED spent) \/ (mine # {} /\ GoOn(r, "check") /\ spent' = spent \cup {r.proof})
  BY DEF TakeChallenge
<1>. QED
  BY <1>2, <1>3, <1>4

\* Nor was a code that is there, or a link that is open.
LEMMA SpendBooks == ASSUME IInv, AInv, Claims, NEW r \in requests, Spend(r) PROVE Booked /\ Claims'
<1>1. /\ r \in Rec /\ r.at = "spend" /\ r.op \in {"second", "reset", "redeem"}
      /\ r.proof[1] = (IF r.op = "redeem" THEN "link" ELSE "code")
  BY Known DEF Spend, RequestFits
<1>2. CASE ~Unspent(r.proof)
  <2>1. ~Holds(r)
    BY <1>1 DEF Holds
  <2>. QED
    BY <1>2, <2>1, LeavesUnbooked, ClaimsLeave DEF Spend, Done
<1>3. CASE Unspent(r.proof)
  <2>1. PICK at \in {"settle", "set"} : (at = "set" => r.op \in {"reset", "redeem"}) /\ GoOn(r, at)
    BY <1>1, <1>3 DEF Spend, AfterSpending
  <2>2. at \in Ats
    BY DEF Ats
  <2>3. r.proof \notin spent
    BY <1>1, <1>3 DEF Unspent, IInv, Gone
  <2>. QED
    BY <1>1, <1>3, <2>1, <2>2, <2>3, SpendingBooked, ClaimsGoOn DEF Spend
<1>. QED
  BY <1>2, <1>3

LEMMA ArrivalBooks == ASSUME Claims, Arrives PROVE Booked /\ Claims'
<1>1. Arrived /\ UNCHANGED <<spent, outcomes, cut>>
  BY ArrivalsHoldNothing
<1>2. CASE requests' = requests
  BY <1>1, <1>2, NothingBooked, ClaimsLeave DEF Held, Holds
<1>3. ASSUME NEW d, Unheld(d) PROVE Booked /\ Claims'
  <2>1. Held' = Held
    BY <1>3, HeldArrive DEF Unheld
  <2>2. Claims'
    BY <1>3 DEF Unheld, Claims, Claim
  <2>. QED
    BY <1>1, <2>1, <2>2, NothingBooked
<1>. QED
  BY <1>1, <1>2, <1>3 DEF Arrived

LEMMA NextBooks == IInv /\ AInv /\ Claims /\ [AccountNext]_accountVars => Booked /\ Claims'
<1>1. ASSUME UNCHANGED <<requests, spent, outcomes, cut>>, Claims PROVE Booked /\ Claims'
  BY <1>1, NothingBooked, ClaimsLeave DEF Held, Holds
<1>2. TimePasses \/ UNCHANGED accountVars => UNCHANGED <<requests, spent, outcomes, cut>>
  BY DEF TimePasses, accountVars
<1>3. ASSUME IInv, AInv, Claims, NEW r \in requests, Continues(r) PROVE Booked /\ Claims'
  BY <1>3, RehashBooks, CountBooks, ClearBooks, ConsumeBooks, ReissueBooks, EndBooks, CutBooks, CheckBooks,
     SignInBooks, PasskeyBooks, PasswordBooks, TakeBooks, SpendBooks DEF Continues
<1>. QED
  BY <1>1, <1>2, <1>3, ArrivalBooks DEF AccountNext

-----------------------------------------------------------------------------
(* Theorems *)

\* Where every request stands fits what the tables hold, between any two
\* statements of any handlers.
THEOREM AccountsInductive == AccountSpec => []IInv
<1>1. IInv /\ [AccountNext]_accountVars => IInv'
  BY NextIInv
<1> QED
  BY InitIInv, <1>1, PTL DEF AccountSpec

\* Every row and every request has its type, within the bounds: a request sets
\* one password at most or inserts one session (handlers_recovery.go:268,
\* handlers_auth.go:132), so that there are never more than requests.
THEOREM AccountsTypeCorrect == AccountSpec => []AccountsTypeOK
<1>1. AInv => AccountsTypeOK
  BY DEF AInv
<1> QED
  BY AccountsInductive, InitAInv, NextAInv, <1>1, PTL DEF AccountSpec

\* A recovery code, a link or a challenge brings one session, key or password,
\* whatever requests race with it (recovery.go:36, recoveries.go:71,
\* passkeys.go:128).
THEOREM ProofsAreSpentOnce == AccountSpec => []EachProofOnce
<1>1. IInv => EachProofOnce
  BY DEF IInv, ProofsFit
<1> QED
  BY AccountsInductive, <1>1, PTL

\* What was spent brought something, is on its way, or was cut off or refused
\* (handlers_recovery.go:183, 268).
THEOREM ProofsAreAccountedFor == AccountSpec => []NothingVanishes
<1>1. IInv => NothingVanishes
  BY DEF IInv, ProofsFit, Brought, NothingVanishes
<1> QED
  BY AccountsInductive, <1>1, PTL

\* Handlers that race, overlap or are cut off keep the promise of SingleUse: each
\* code, link and challenge is spent by one statement of one request, which brings
\* one thing it is good for, or nothing (recovery.go:36, recoveries.go:71,
\* passkeys.go:128, handlers_recovery.go:183).
THEOREM ProofsAreUsedOnce == AccountSpec => ProofsAreSingleUse
<1>1. AccountInit => Claims /\ Ledger!Init
  BY DEF AccountInit, Claims, Ledger!Init, Held
<1>2. IInv /\ AInv /\ Claims /\ [AccountNext]_accountVars => Claims' /\ [Ledger!Next]_Ledger!singleUseVars
  BY NextBooks DEF Booked
<1>. QED
  BY AccountsInductive, InitAInv, NextAInv, <1>1, <1>2, PTL DEF AccountSpec, ProofsAreSingleUse, Ledger!Spec

\* A password alone never got past a passkey that was there from the moment
\* it was verified (handlers_auth.go:132).
THEOREM PasskeysAreAsked == AccountSpec => []NoKeySkipped
<1>1. IInv => NoKeySkipped
  BY DEF IInv
<1> QED
  BY AccountsInductive, <1>1, PTL

\* Every living session was inserted after the last change of the password
\* (handlers_recovery.go:268).
THEOREM ChangesCutOff == AccountSpec => []CutOffByChange
<1>1. IInv => CutOffByChange
  BY DEF IInv
<1> QED
  BY AccountsInductive, <1>1, PTL

\* The password last set is the one stored, unless a sign-in upgraded the hash
\* it had verified before (handlers_auth.go:123).
THEOREM UpgradesOverwrite == AccountSpec => []OnlyAnUpgradeOverwrites
<1>1. IInv => OnlyAnUpgradeOverwrites
  BY DEF IInv, PasswordFits
<1> QED
  BY AccountsInductive, <1>1, PTL
=============================================================================
