------------------------------- MODULE Datalog -------------------------------
(***************************************************************************)
(* What a token's blocks say, as datalog: the facts and checks each mint   *)
(* and attenuation of src/cap.rs writes, and what the crate makes of the   *)
(* blocks of any token it is shown, its own or not.                        *)
(*                                                                         *)
(* Module Cap is the abstraction: it knows the checks this crate writes by *)
(* their constants.  Here a check is queries over facts, and evaluation is *)
(* biscuit's.  A token is built block by block, by nauthy or by hand; while*)
(* nauthy built all of it, `minted` is the Cap it should be.               *)
(***************************************************************************)
EXTENDS Cap, FiniteSetsExt

CONSTANTS
  MaxTokenFacts,  \* MAX_TOKEN_FACTS
  MaxJoinArity,   \* MAX_JOIN_ARITY
  LastTick,       \* the last instant a SystemTime can hold
  ByHand,         \* the blocks that other tools write
  MaxDepth,       \* bound: how many blocks a token has
  MaxByHand       \* bound: how many, when some are by hand

\* A block as biscuit reads one: finitely many facts and comparisons, a kind of
\* check it knows, the predicates of a query in order, an ordering by a date.
WellFormed(block) ==
  /\ IsFiniteSet(block.facts)
  /\ \A check \in block.checks :
       /\ check.kind \in {"one", "all", "reject"}
       /\ \A query \in check.queries :
            /\ Len(query.body) \in Nat /\ DOMAIN query.body = 1 .. Len(query.body)
            /\ IsFiniteSet(query.comparisons)
            /\ \A c \in query.comparisons : c[2] \in {"<=", ">="} => c[3] \in Nat

\* The least limits are those the crate's own blocks need.
ASSUME DatalogAssumption ==
  /\ {MaxTokenFacts, MaxJoinArity, LastTick, MaxDepth, MaxByHand} \subseteq Nat
  /\ MaxTokenFacts >= 5 /\ MaxJoinArity >= 2
  /\ \A block \in ByHand : WellFormed(block)

VARIABLES
  token,        \* the blocks, the authority first
  minted        \* the Cap they were written for, in a set; {} for none

tokenVars == <<token, minted>>

Clock == 0 .. LastTick
-----------------------------------------------------------------------------
(* Datalog.  A fact is a name and a value.  A query joins predicates, each a *)
(* name and a variable, under comparisons of a variable with a literal; it   *)
(* may open a closure, which no block of nauthy's does.                      *)

Query(body, comparisons) ==
  [body |-> body, comparisons |-> comparisons, closure |-> FALSE]
Check(kind, queries) == [kind |-> kind, queries |-> queries]
CheckIf(query) == Check("one", {query})
DatalogBlock(facts, checks) == [facts |-> facts, rules |-> FALSE, checks |-> checks]

ServiceIs(s) == Query(<< <<"service", "s">> >>, {<<"s", "==", s>>})
TimeAtMost(date) == Query(<< <<"time", "t">> >>, {<<"t", "<=", date>>})
DeviceIs(d) == Query(<< <<"bound_device", "d">> >>, {<<"d", "==", d>>})
ForeignIsBound == Query(<< <<"authority_bound", "x">>, <<"foreign_member", "x">> >>, {})

\* The datalog of the blocks nauthy writes.
WrittenFacts(b) ==
  (IF b.member THEN {<<"member", "true">>} ELSE {})
    \cup {<<"authority_bound", x>> : x \in b.bound}
    \cup {<<"expires_at", date>> : date \in b.expires}
Written(b) ==
  DatalogBlock(WrittenFacts(b),
    {CheckIf(ServiceIs(s)) : s \in b.services}
      \cup {CheckIf(TimeAtMost(date)) : date \in b.dates}
      \cup {CheckIf(DeviceIs(d)) : d \in b.devices}
      \cup (IF b.foreign THEN {CheckIf(ForeignIsBound)} ELSE {}))

\* The facts each verification supplies, and what its policy asks for.
Supplied(program) ==
  {<<"time", program.time>>}
    \cup {<<"service", s>> : s \in program.service}
    \cup {<<"bound_device", d>> : d \in program.device}
    \cup {<<"foreign_member", x>> : x \in program.foreign}
Policies == [always |-> {}, member |-> {<<"member", "true">>}]
-----------------------------------------------------------------------------
(* Evaluation, biscuit's.  A block sees the authority's facts, its own and *)
(* those supplied; a policy and a read see no block's but the authority's. *)

Visible(blocks, n, supplied) == supplied \cup blocks[1].facts \cup blocks[n].facts

\* The ways a body's predicates can be met by facts, one for each.
Joins(query, facts) ==
  LET positions == DOMAIN query.body IN
  {join \in [positions -> facts] :
     \A m, n \in positions :
       /\ join[n][1] = query.body[n][1]
       /\ query.body[m][2] = query.body[n][2] => join[m][2] = join[n][2]}

Compares(value, op, literal) ==
  CASE op = "==" -> value = literal
    [] op = "<=" -> value <= literal
    [] op = ">=" -> value >= literal

\* A comparison over a variable the body never binds bounds nothing.
Satisfies(join, query) ==
  \A c \in query.comparisons, n \in DOMAIN query.body :
    query.body[n][2] = c[1] => Compares(join[n][2], c[2], c[3])
Matches(query, facts) == \E join \in Joins(query, facts) : Satisfies(join, query)

Passes(check, facts) ==
  CASE check.kind = "one" -> \E q \in check.queries : Matches(q, facts)
    [] check.kind = "all" ->
         \E q \in check.queries :
           /\ Joins(q, facts) # {}
           /\ \A join \in Joins(q, facts) : Satisfies(join, q)
    [] check.kind = "reject" -> \A q \in check.queries : ~Matches(q, facts)
-----------------------------------------------------------------------------
(* budgeted_authorizer: bound_evaluation_cost, before anything is evaluated. *)

ChecksOf(blocks) == UNION {blocks[n].checks : n \in DOMAIN blocks}
AllFacts(blocks, supplied) ==
  {<<0, f>> : f \in supplied}
    \cup UNION {{<<n, f>> : f \in blocks[n].facts} : n \in DOMAIN blocks}

\* query_beyond_the_grammar and opens_a_closure.
QueryBeyondAtArity(query) == Len(query.body) >= MaxJoinArity \/ query.closure
QueryBeyondTheGrammar(query) == Len(query.body) > MaxJoinArity \/ query.closure
BeyondTheGrammar(blocks, supplied) ==
  \/ Cardinality(AllFacts(blocks, supplied)) > MaxTokenFacts
  \/ \E n \in DOMAIN blocks : blocks[n].rules
  \/ \E c \in ChecksOf(blocks) : \E q \in c.queries : QueryBeyondTheGrammar(q)

\* authorize_under_budget.
Authorize(blocks, supplied, policy) ==
  IF BeyondTheGrammar(blocks, supplied) THEN "TooComplex"
  ELSE IF /\ \A n \in DOMAIN blocks : \A c \in blocks[n].checks :
               Passes(c, Visible(blocks, n, supplied))
          /\ policy \subseteq Visible(blocks, 1, supplied)
       THEN "Ok" ELSE "Denied"

\* A read of the authority's facts: authority_bound_text, is_member_badge, expiry.
AnyBlockReads(blocks, name) ==
  {f[2] : f \in {g \in UNION {blocks[n].facts : n \in DOMAIN blocks} : g[1] = name}}
AuthorityReads(blocks, name) ==
  {f[2] : f \in {g \in Visible(blocks, 1, {}) : g[1] = name}}
-----------------------------------------------------------------------------
(* valid_until and expiry.  A date is any number; some no clock can hold.    *)

\* date_at, and the endpoint time_at_most adds to it.
DateHeld(date) == date * Second <= LastTick
EndHeld(date) == LastInstant(date) <= LastTick

ReadsTheClock(query) == \E n \in DOMAIN query.body : query.body[n][1] = "time"

\* time_at_most: exactly `time($t), $t <= <date>`, one comparison of that variable.
AtMost(query) ==
  IF Len(query.body) = 1 /\ Cardinality(query.comparisons) = 1 /\ ~query.closure
  THEN {c[3] : c \in {d \in query.comparisons :
                        d[1] = query.body[1][2] /\ d[2] = "<=" /\ EndHeld(d[3])}}
  ELSE {}

\* clock_bound: a check passes when any of its queries does, so its latest one
\* bounds it, provided each of them is recognized.
ClockChecks(blocks) ==
  {c \in ChecksOf(blocks) : \E q \in c.queries : ReadsTheClock(q)}
Readable(check) == check.kind = "one" /\ \A q \in check.queries : AtMost(q) # {}
ClockBoundEarliest(check) == LastInstant(Min(UNION {AtMost(q) : q \in check.queries}))
ClockBound(check) == LastInstant(Max(UNION {AtMost(q) : q \in check.queries}))

\* The answer, and with "Some" the instant.
Answer(kind, at) == [kind |-> kind, at |-> at]
TokenValidUntil(blocks) ==
  LET clock == ClockChecks(blocks) IN
  IF BeyondTheGrammar(blocks, {}) THEN Answer("TooComplex", 0)
  ELSE IF \E c \in clock : ~Readable(c) THEN Answer("UnreadableExpiry", 0)
  ELSE IF clock = {} THEN Answer("None", 0)
  ELSE Answer("Some", Min({ClockBound(c) : c \in clock}))

\* Cap::expiry: the authority's date, unless no clock can hold it.
TokenExpiry(blocks) ==
  LET dates == AuthorityReads(blocks, "expires_at") IN
  IF BeyondTheGrammar(blocks, {}) THEN Answer("TooComplex", 0)
  ELSE IF dates = {} THEN Answer("None", 0)
  ELSE LET date == CHOOSE d \in dates : TRUE IN
       IF DateHeld(date) THEN Answer("Some", date * Second)
       ELSE Answer("UnreadableExpiry", 0)
-----------------------------------------------------------------------------
TokenInit == token = <<>> /\ minted = {}

\* The mints of Identity.
Mints ==
  UNION {{Mint(root, s, t, 0), MintMember(root, d, t, 0), MintBound(root, s, d, t, 0),
          MintAuthoritySlip(root, s, d, t, 0)} :
           root \in Keys, s \in Services, d \in Keys, t \in Clock}
MintToken(cap) ==
  /\ token = <<>>
  /\ token' = <<Written(Authority(cap))>>
  /\ minted' = {cap}

\* Cap::attenuate, of a token nauthy built or not.
NarrowToken(service, shorten) ==
  /\ Len(token) \in 1 .. (IF minted = {} THEN MaxByHand ELSE MaxDepth) - 1
  /\ service # {} \/ shorten # {}
  /\ token' = Append(token, Written(Narrowing(service, shorten, Len(token))))
  /\ minted' = {Attenuate(cap, service, shorten, Len(token)) : cap \in minted}

\* A block by hand, as the authority's or after it.
AppendByHand(block) ==
  /\ Len(token) < MaxByHand
  /\ token' = Append(token, block)
  /\ minted' = {}

TokenNext ==
  \/ \E cap \in Mints : MintToken(cap)
  \/ \E service \in Options(Services), shorten \in Options(Clock) :
       NarrowToken(service, shorten)
  \/ \E block \in ByHand : AppendByHand(block)
-----------------------------------------------------------------------------
(* Properties.                                                             *)

\* The questions a token is asked at an instant: for a service, of a proven dialer
\* or of none; of membership; under a foreign authority.
Question(program, policy) == [program |-> program, policy |-> Policies[policy]]
ToUse(t, s, dialer) == Question(Program(t, {s}, dialer, {}), "always")
ToBelong(t, d) == Question(Program(t, {}, {d}, {}), "member")
ToUseUnder(t, s, x) == Question(Program(t, {s}, {}, {x}), "always")
Questions(t) ==
  {ToUse(t, s, dialer) : s \in Services, dialer \in Options(Keys)}
  \cup {ToBelong(t, d) : d \in Keys}
  \cup {ToUseUnder(t, s, x) : s \in Services, x \in Keys}
Granted(blocks, q) == Authorize(blocks, Supplied(q.program), q.policy) = "Ok"

\* A token whose blocks assert a time beside the request's.
OwnTimeIn(blocks) == \E n \in DOMAIN blocks : \E f \in blocks[n].facts : f[1] = "time"

\* The datalog nauthy writes means what module Cap says, on every path and at every
\* instant, and none of it is ever too complex or, while the clock can hold the end
\* of its last second, unreadable.
DatalogMeansCap ==
  \A c \in minted :
    /\ \A t \in Clock : \A q \in Questions(t) :
         Authorize(token, Supplied(q.program), q.policy) =
           IF ChecksHold(c, q.program) /\ (q.policy # {} => IsMemberBadge(c))
           THEN "Ok" ELSE "Denied"
    /\ AuthorityReads(token, "authority_bound") = AuthorityBound(c)
    /\ TokenExpiry(token) = Answer("Some", Max(Expiry(c)) * Second)
    /\ TokenValidUntil(token) =
         IF \A b \in BlocksOf(c) : \A date \in b.dates : EndHeld(date)
         THEN Answer("Some", ValidUntil(c)) ELSE Answer("UnreadableExpiry", 0)

\* No block of any kind broadens a token: not its facts, checks, rules or queries,
\* whoever wrote it, on any path at any instant; and it changes nothing that is
\* read of the authority.  (Scopes; the budget refuses but never admits.)
NoBlockBroadens ==
  Len(token) > 1 =>
    LET before == SubSeq(token, 1, Len(token) - 1) IN
    /\ \A t \in Clock : \A q \in Questions(t) :
         Granted(token, q) => Granted(before, q)
    /\ \A name \in {"member", "authority_bound", "expires_at"} :
         AuthorityReads(token, name) = AuthorityReads(before, name)

\* A check that reads the clock, with an alternative that sets another fact's value
\* against a date.
OtherDateIn(blocks) ==
  \E c \in ClockChecks(blocks) : \E q \in c.queries : AtMost(q) # {} /\ ~ReadsTheClock(q)

\* What the documentation of valid_until says where it gives an instant: every check
\* that reads the clock has only queries `time($t), $t <= <date>`.
SomeReadsOnlyTheClock ==
  TokenValidUntil(token).kind = "Some" => ~OtherDateIn(token)

\* valid_until answers only what is true of any token but those, and those with a time
\* of their own: after the instant it gives nothing is granted; up to it, what is
\* granted at all is; and where it says that no check reads the clock, time changes no
\* answer.
CutoffTrue ==
  \A t \in Clock : \A q \in Questions(t) :
    LET until == TokenValidUntil(token)
        At(u) == Granted(token, [q EXCEPT !.program.time = Date(u)]) IN
    token # <<>> /\ Granted(token, q) /\ ~OwnTimeIn(token) /\ ~OtherDateIn(token) =>
      /\ until.kind = "Some" => {u \in Clock : At(u)} = 0 .. until.at
      /\ until.kind = "None" => {u \in Clock : At(u)} = Clock
=============================================================================
