--------------------------- MODULE AccountProofs ----------------------------
(***************************************************************************)
(* The services around accounts, for any number of tokens, customers,      *)
(* events, people, invitations and requests: rotation of refresh tokens,   *)
(* the plan a user is billed for, and who may open a board.                *)
(*                                                                         *)
(* Tokens: a family has one live token at most, and a family that is dead  *)
(* stays dead.  Neither is inductive: between the claim of a token and the *)
(* insert of its successor the family has no live token, and it is the     *)
(* request that stands for it.  FamilyInv says so: live tokens and         *)
(* inserting requests of a family together are one at most.                *)
(***************************************************************************)
EXTENDS RefreshTokens, Billing, Sharing, FiniteSetTheorems, TLAPS

(* Refresh tokens *)

(* Requests between claim and insert, and the family they work for. *)
InsertingRequests == {r \in Requests : refresh[r].step = "insert"}
FamilyOf(r) == family[refresh[r].token]

(* A request works on a token that was issued, a token is in a family      *)
(* whose first token was issued, and one that was not issued in none.      *)
NamedInv ==
  /\ \A r \in Requests : refresh[r].step # "idle" => refresh[r].token \in Issued
  /\ \A t \in Issued : family[t] \in Issued
  /\ \A t \in Tokens \ Issued : family[t] = NoToken

FamilyInv ==
  /\ \A r \in InsertingRequests : LiveIn(FamilyOf(r)) = {}
  /\ \A r, q \in InsertingRequests : FamilyOf(r) = FamilyOf(q) => r = q

TokenInv == TokenTypeOK /\ NamedInv /\ FamilyInv /\ OneLivePerFamily

LEMMA TokenInvInit == TokenInit => TokenInv
  BY TokenConstants
  DEF TokenInit, TokenInv, TokenTypeOK, NamedInv, FamilyInv, OneLivePerFamily,
      InsertingRequests, Issued, LiveIn, IdleRefresh

(* A login: nothing else is in the family of a token that is new. *)
LEMMA LoginKeepsInv ==
  ASSUME TokenInv, NEW t \in Tokens, InsertToken(t, t), UNCHANGED <<expired, refresh>>
  PROVE  TokenInv'
<1>1. tokenState' = [tokenState EXCEPT ![t] = "live"] /\ family' = [family EXCEPT ![t] = t]
      /\ refresh' = refresh /\ expired' = expired /\ t \notin Issued
  BY DEF InsertToken, Issued
<1>2. TokenTypeOK' BY <1>1 DEF TokenInv, TokenTypeOK
<1>3. \A u \in Tokens : u # t => family[u] # t
  BY <1>1, TokenConstants DEF TokenInv, NamedInv, Issued
<1>4. \A r \in Requests : refresh[r].step # "idle" => refresh[r].token # t
  BY <1>1 DEF TokenInv, NamedInv
<1>5. NamedInv'
  BY <1>1 DEF TokenInv, NamedInv, TokenTypeOK, Issued
<1>6. FamilyInv'
  BY <1>1, <1>3, <1>4
  DEF TokenInv, FamilyInv, NamedInv, TokenTypeOK, InsertingRequests, FamilyOf, LiveIn,
      Issued
<1>7. OneLivePerFamily'
  BY <1>1, <1>3 DEF TokenInv, OneLivePerFamily, TokenTypeOK
<1> QED BY <1>2, <1>5, <1>6, <1>7 DEF TokenInv

(* A step that only takes life from the tokens of S and sends no request   *)
(* to its insert.                                                          *)
OnlyRevokes(S) ==
  /\ \A t \in S : tokenState[t] = "live"
  /\ tokenState' = [t \in Tokens |-> IF t \in S THEN "revoked" ELSE tokenState[t]]
  /\ family' = family /\ expired' \subseteq Tokens
  /\ refresh' \in [Requests -> [step : {"idle", "claim", "reuse", "insert"},
                                token : Tokens \cup {NoToken}]]
  /\ \A r \in Requests : refresh'[r].step # "idle" => refresh'[r].token \in Issued
  /\ \A r \in Requests : refresh'[r].step = "insert" => refresh'[r] = refresh[r]

(* It disturbs nothing: logout, family revocation, the losing side of a    *)
(* race.                                                                   *)
LEMMA RevokingKeepsInv ==
  ASSUME TokenInv, NEW S \in SUBSET Tokens, OnlyRevokes(S)
  PROVE  TokenInv'
<1> USE DEF OnlyRevokes
<1>1. TokenTypeOK' BY DEF TokenInv, TokenTypeOK
<1>2. NamedInv' BY DEF TokenInv, TokenTypeOK, NamedInv, Issued
<1>3. \A u \in Tokens : tokenState'[u] = "live" => tokenState[u] = "live"
  BY DEF TokenInv, TokenTypeOK
<1>4. FamilyInv'
  BY <1>3 DEF TokenInv, FamilyInv, InsertingRequests, FamilyOf, LiveIn
<1>5. OneLivePerFamily' BY <1>3 DEF TokenInv, OneLivePerFamily
<1> QED BY <1>1, <1>2, <1>4, <1>5 DEF TokenInv

(* The winner of the race for a token takes the place of that token. *)
LEMMA ClaimKeepsInv ==
  ASSUME TokenInv, NEW r \in Requests, Claim(r)
  PROVE  TokenInv'
<1> DEFINE t == refresh[r].token
<1>1. refresh[r].step = "claim" /\ t \in Issued /\ t \in Tokens
      /\ family' = family /\ expired' = expired
  BY DEF Claim, TokenInv, NamedInv, Issued
<1>2. CASE tokenState[t] # "live"
  <2>1. tokenState' = tokenState /\ refresh' = [refresh EXCEPT ![r].step = "reuse"]
    BY <1>2 DEF Claim
  <2>2. OnlyRevokes({})
    BY <1>1, <2>1 DEF OnlyRevokes, TokenInv, TokenTypeOK, NamedInv
  <2> QED BY <2>2, RevokingKeepsInv
<1>3. CASE tokenState[t] = "live"
  <2>1. tokenState' = [tokenState EXCEPT ![t] = "revoked"]
        /\ refresh' = [refresh EXCEPT ![r].step = "insert"]
    BY <1>3 DEF Claim
  <2>2. \A q \in InsertingRequests : FamilyOf(q) # family[t]
    BY <1>1, <1>3 DEF TokenInv, FamilyInv, LiveIn
  <2>3. \A q \in InsertingRequests' : q = r \/ (q \in InsertingRequests /\ FamilyOf(q)' = FamilyOf(q))
    BY <1>1, <2>1 DEF InsertingRequests, FamilyOf, TokenInv, TokenTypeOK
  <2>4. FamilyOf(r)' = family[t]
    BY <1>1, <2>1 DEF FamilyOf, TokenInv, TokenTypeOK
  <2>5. \A u \in Tokens : tokenState'[u] = "live" => tokenState[u] = "live" /\ u # t
    BY <1>1, <2>1 DEF TokenInv, TokenTypeOK
  <2>6. TokenTypeOK' BY <1>1, <2>1 DEF TokenInv, TokenTypeOK
  <2>7. NamedInv' BY <1>1, <2>1 DEF TokenInv, NamedInv, TokenTypeOK, Issued
  <2>8. \A u \in Tokens : tokenState'[u] = "live" => family'[u] # family[t]
    BY <1>1, <1>3, <2>5 DEF TokenInv, OneLivePerFamily
  <2>9. ASSUME NEW q \in InsertingRequests' PROVE \A u \in Tokens : tokenState'[u] = "live" => family'[u] # FamilyOf(q)'
    <3>1. CASE q = r BY <3>1, <2>4, <2>8
    <3>2. CASE q \in InsertingRequests /\ FamilyOf(q)' = FamilyOf(q)
      <4>1. LiveIn(FamilyOf(q)) = {} BY <3>2 DEF TokenInv, FamilyInv
      <4> QED BY <1>1, <3>2, <4>1, <2>5 DEF LiveIn
    <3> QED BY <2>3, <3>1, <3>2
  <2>10. \A p, q \in InsertingRequests' : FamilyOf(p)' = FamilyOf(q)' => p = q
    BY <2>2, <2>3, <2>4 DEF TokenInv, FamilyInv
  <2>11. FamilyInv'
    BY <2>9, <2>10 DEF FamilyInv, LiveIn
  <2>12. OneLivePerFamily' BY <1>1, <2>5 DEF TokenInv, OneLivePerFamily
  <2> QED BY <2>6, <2>7, <2>11, <2>12 DEF TokenInv
<1> QED BY <1>2, <1>3

(* The successor takes the place of the request. *)
LEMMA InsertKeepsInv ==
  ASSUME TokenInv, NEW r \in Requests, NEW t \in Tokens, InsertRotated(r, t)
  PROVE  TokenInv'
<1> DEFINE f == FamilyOf(r)
<1>1. /\ r \in InsertingRequests /\ tokenState[t] = "none" /\ expired' = expired
      /\ tokenState' = [tokenState EXCEPT ![t] = "live"]
      /\ family' = [family EXCEPT ![t] = f]
      /\ refresh' = [refresh EXCEPT ![r] = IdleRefresh]
  BY DEF InsertRotated, InsertToken, InsertingRequests, FamilyOf
<1>2. refresh[r].token \in Issued /\ f \in Issued /\ f # t
  BY <1>1 DEF TokenInv, NamedInv, InsertingRequests, FamilyOf, Issued
<1>3. LiveIn(f) = {} /\ \A q \in InsertingRequests : q # r => FamilyOf(q) # f
  BY <1>1 DEF TokenInv, FamilyInv
<1>4. TokenTypeOK' BY <1>1, <1>2 DEF TokenInv, TokenTypeOK, IdleRefresh, Issued
<1>5. NamedInv'
  BY <1>1, <1>2 DEF TokenInv, NamedInv, TokenTypeOK, Issued, IdleRefresh
<1>6. \A q \in InsertingRequests' : q \in InsertingRequests /\ q # r
                                    /\ FamilyOf(q)' = FamilyOf(q) /\ FamilyOf(q) # f
  BY <1>1, <1>3
  DEF InsertingRequests, FamilyOf, TokenInv, TokenTypeOK, NamedInv, Issued, IdleRefresh
<1>7. \A u \in Tokens : tokenState'[u] = "live" =>
        \/ u = t /\ family'[u] = f
        \/ u # t /\ tokenState[u] = "live" /\ family'[u] = family[u]
  BY <1>1 DEF TokenInv, TokenTypeOK
<1>8. ASSUME NEW q \in InsertingRequests' PROVE \A u \in Tokens : tokenState'[u] = "live" => family'[u] # FamilyOf(q)'
  <2>1. LiveIn(FamilyOf(q)) = {} BY <1>6 DEF TokenInv, FamilyInv
  <2> QED BY <1>6, <1>7, <2>1 DEF LiveIn
<1>9. FamilyInv'
  BY <1>6, <1>8 DEF TokenInv, FamilyInv, LiveIn
<1>10. OneLivePerFamily'
  BY <1>3, <1>7 DEF TokenInv, OneLivePerFamily, LiveIn
<1> QED BY <1>4, <1>5, <1>9, <1>10 DEF TokenInv

LEMMA TokenInvStep == TokenInv /\ [TokenNext]_tokenVars => TokenInv'
<1> SUFFICES ASSUME TokenInv, [TokenNext]_tokenVars PROVE TokenInv'
  OBVIOUS
<1>1. ASSUME NEW t \in Tokens, GoogleCallback(t) \/ DevLogin(t) PROVE TokenInv'
  BY <1>1, LoginKeepsInv DEF GoogleCallback, DevLogin
<1>2. ASSUME NEW t \in Tokens, Logout(t) PROVE TokenInv'
  <2>1. OnlyRevokes({t})
    BY <1>2 DEF Logout, OnlyRevokes, TokenInv, TokenTypeOK, NamedInv
  <2> QED BY <2>1, RevokingKeepsInv
<1>3. ASSUME NEW t \in Tokens, Expires(t) PROVE TokenInv'
  <2>1. OnlyRevokes({})
    BY <1>3 DEF Expires, OnlyRevokes, TokenInv, TokenTypeOK, NamedInv
  <2> QED BY <2>1, RevokingKeepsInv
<1>4. ASSUME NEW r \in Requests, Claim(r) PROVE TokenInv'
  BY <1>4, ClaimKeepsInv
<1>5. ASSUME NEW r \in Requests, RevokeFamily(r) PROVE TokenInv'
  <2> DEFINE S == LiveIn(family[refresh[r].token])
  <2>1. S \in SUBSET Tokens BY DEF LiveIn
  <2>2. OnlyRevokes(S)
    BY <1>5 DEF RevokeFamily, IdleRefresh, OnlyRevokes, LiveIn, TokenInv, TokenTypeOK,
                NamedInv
  <2> QED BY <2>1, <2>2, RevokingKeepsInv
<1>6. ASSUME NEW r \in Requests, RefreshDies(r) PROVE TokenInv'
  <2>1. OnlyRevokes({})
    BY <1>6 DEF RefreshDies, IdleRefresh, OnlyRevokes, TokenInv, TokenTypeOK, NamedInv
  <2> QED BY <2>1, RevokingKeepsInv
<1>7. ASSUME NEW r \in Requests, NEW t \in Tokens, StartRefresh(r, t) PROVE TokenInv'
  <2>1. OnlyRevokes({})
    BY <1>7 DEF StartRefresh, OnlyRevokes, TokenInv, TokenTypeOK, NamedInv
  <2> QED BY <2>1, RevokingKeepsInv
<1>8. ASSUME NEW r \in Requests, NEW t \in Tokens, InsertRotated(r, t) PROVE TokenInv'
  BY <1>8, InsertKeepsInv
<1>9. CASE UNCHANGED tokenVars
  BY <1>9 DEF TokenInv, TokenTypeOK, NamedInv, tokenVars, FamilyInv, OneLivePerFamily, InsertingRequests, FamilyOf, LiveIn,
              Issued
<1> QED BY <1>1, <1>2, <1>3, <1>4, <1>5, <1>6, <1>7, <1>8, <1>9 DEF TokenNext

(* The state of the token tables and of the requests keeps its types. *)
THEOREM TokenInvariant == TokenSpec => []TokenInv
  BY TokenInvInit, TokenInvStep, PTL DEF TokenSpec

(* A session has at most one live refresh token (session.routes.ts). *)
THEOREM RotationIsExclusive == TokenSpec => []OneLivePerFamily
<1>1. TokenInv => OneLivePerFamily BY DEF TokenInv
<1> QED BY <1>1, TokenInvariant, PTL

LEMMA DeadStaysDead ==
  ASSUME TokenInv, TokenNext, NEW f \in Tokens, Dead(f)
  PROVE  Dead(f)'
<1> USE DEF TokenInv, TokenTypeOK, NamedInv
<1>1. f \in Issued /\ LiveIn(f) = {} /\ \A r \in InsertingRequests : FamilyOf(r) # f
  BY DEF Dead, Inserting, InsertingRequests, FamilyOf
<1> DEFINE StillDead ==
             /\ f \in Issued'
             /\ \A t \in Tokens : tokenState'[t] = "live" => family'[t] # f
             /\ \A r \in Requests : refresh'[r].step = "insert"
                                      => family'[refresh'[r].token] # f
<1>2. StillDead => Dead(f)' BY DEF Dead, Inserting, LiveIn
<1>3. \A t \in Tokens : tokenState[t] = "live" => family[t] # f BY <1>1 DEF LiveIn
<1>4. \A r \in Requests : refresh[r].step = "insert" => family[refresh[r].token] # f
  BY <1>1 DEF InsertingRequests, FamilyOf
<1>5. ASSUME NEW t \in Tokens, GoogleCallback(t) \/ DevLogin(t) PROVE StillDead
  BY <1>1, <1>3, <1>4, <1>5 DEF GoogleCallback, DevLogin, InsertToken, Issued
<1>6. ASSUME NEW t \in Tokens, Logout(t) \/ Expires(t) PROVE StillDead
  BY <1>1, <1>3, <1>4, <1>6 DEF Logout, Expires, Issued
<1>7. ASSUME NEW r \in Requests, Claim(r) PROVE StillDead
  BY <1>1, <1>3, <1>4, <1>7 DEF Claim, Issued
<1>8. ASSUME NEW r \in Requests, RevokeFamily(r) PROVE StillDead
  BY <1>1, <1>3, <1>4, <1>8 DEF RevokeFamily, Issued, IdleRefresh
<1>9. ASSUME NEW r \in Requests, RefreshDies(r) PROVE StillDead
  BY <1>1, <1>3, <1>4, <1>9 DEF RefreshDies, Issued, IdleRefresh
<1>10. ASSUME NEW r \in Requests, NEW t \in Tokens, StartRefresh(r, t) PROVE StillDead
  BY <1>1, <1>3, <1>4, <1>10 DEF StartRefresh, Issued
<1>11. ASSUME NEW r \in Requests, NEW t \in Tokens, InsertRotated(r, t) PROVE StillDead
  BY <1>1, <1>3, <1>4, <1>11 DEF InsertRotated, InsertToken, Issued, IdleRefresh
<1> HIDE DEF StillDead
<1> QED BY <1>2, <1>5, <1>6, <1>7, <1>8, <1>9, <1>10, <1>11 DEF TokenNext

(* A session that is over does not come back (session.routes.ts). *)
THEOREM RevocationIsFinal == TokenSpec => FamilyStaysDead
<1>1. TokenInv /\ [TokenNext]_tokenVars
        => [\A f \in Tokens : Dead(f) => Dead(f)']_tokenVars
  BY DeadStaysDead
<1> QED BY <1>1, TokenInvariant, PTL DEF TokenSpec, FamilyStaysDead

-----------------------------------------------------------------------------
(* Billing: an event that was applied is recorded and not under way, *)

EffectInv ==
  /\ working \subseteq recorded /\ DOMAIN effects \subseteq recorded \ working
  /\ \A e \in DOMAIN effects : effects[e] = 1

(* whoever pays, or may be linked by an event, is a customer of the user,   *)
(* and what Stripe shows of a subscription it has sent as an event,         *)
StripeTypes ==
  /\ IsFiniteSet(customers) /\ customers \subseteq Customers
  /\ sessions \subseteq customers /\ addressed \subseteq customers
  /\ erased \subseteq customers
  /\ ticks \in Nat /\ created \in [Subs -> Nat]
  /\ tagged \subseteq Subs
  /\ customerOf \in [Subs -> Customers \cup {Nobody}]
  /\ status \in [Subs -> Changes \cup {NotBought}]
  /\ outbox \subseteq EventsOfStripe

StripeInv ==
  /\ StripeTypes
  /\ \A s \in Subs : status[s] # NotBought => status[s] \in outbox /\ status[s].sub = s
  /\ \A s \in Subs : status[s] # NotBought \/ s \in tagged => customerOf[s] \in customers
  /\ \A s \in Active : customerOf[s] \notin erased
  /\ \A e \in outbox : /\ e.type = "checkout" => e.customer \in customers
                       /\ e.type = "deleted" => e.is = "ended"

(* one customer is linked, and the plan of a row that counts as paid is     *)
(* that of a price that Stripe sent,                                        *)
OneLink == \A c, d \in linked : c = d

Priced(plan) ==
  \E e \in outbox : e.type # "checkout" /\ plan = getPlanFromPriceId(e.price)

Rows == [is : PaidStatuses \cup {"ended", "none"}, plan : {"free", "startup", "business"}]

TableInv ==
  /\ linked \subseteq customers /\ OneLink
  /\ rows \in [Subs -> Rows] /\ owned \subseteq Subs
  /\ recorded \subseteq outbox /\ writing \subseteq recorded
  /\ \A e \in writing : e.type = "updated"
  /\ \A s \in Subs : rows[s].is \in PaidStatuses => Priced(rows[s].plan)

(* and what a profile request is owed is still being paid for.              *)
Answers == {"none", "free", "startup", "business", "trial", "error"}

FetchType ==
  [step : {"idle", "stored", "lookup", "customer", "list", "link", "row", "done"},
   customer : Customers \cup {Nobody}, seen : Changes \cup {NotBought},
   owed : SUBSET Subs, answer : Answers]

(* A request that is well under way, or was answered as it should be.       *)
FetchOK(r) ==
  /\ r \in FetchType
  /\ r.owed \subseteq Active
  /\ r.step \in {"link", "row"} =>
       r.seen \in outbox /\ r.seen \in Changes /\ r.seen.is \in PaidStatuses
  /\ r.step = "list" => r.customer \in customers
  /\ r.answer = "free" => r.owed = {} \/ ~Ordinary

FetchInv ==
  /\ fetch \in [Fetches -> FetchType]
  /\ \A f \in Fetches : FetchOK(fetch[f])

BillingInv == EffectInv /\ StripeInv /\ TableInv /\ FetchInv

LEMMA BillingInvInit == BillingInit => BillingInv
<1> SUFFICES ASSUME BillingInit PROVE BillingInv OBVIOUS
<1>1. EffectInv BY DEF BillingInit, EffectInv
<1>2. StripeInv
  <2>1. StripeTypes BY FS_EmptySet DEF BillingInit, StripeTypes
  <2>2. \A s \in Subs : status[s] = NotBought BY DEF BillingInit
  <2>3. Active = {} BY <2>2 DEF Active, NotBought, PaidStatuses
  <2> QED BY <2>1, <2>2, <2>3 DEF BillingInit, StripeInv
<1>3. TableInv
  <2>1. NoRow \in Rows /\ NoRow.is \notin PaidStatuses BY DEF NoRow, Rows, PaidStatuses
  <2>2. rows \in [Subs -> Rows] /\ \A s \in Subs : rows[s].is \notin PaidStatuses
    BY <2>1 DEF BillingInit
  <2> QED BY <2>2 DEF BillingInit, TableInv, OneLink
<1>4. FetchOK(NoFetch) /\ NoFetch \in FetchType BY DEF NoFetch, FetchOK, FetchType, Answers
<1>5. FetchInv BY <1>4 DEF BillingInit, FetchInv
<1> QED BY <1>1, <1>2, <1>3, <1>5 DEF BillingInv

-----------------------------------------------------------------------------
LEMMA ChangesAreNoBlank ==
  /\ \A x \in Changes : /\ x # NotBought /\ x.is # "none" /\ x.type # "checkout"
                        /\ x.sub \in Subs /\ x.price \in Prices
                        /\ x.is \in PaidStatuses \cup {"ended"}
  /\ NotBought.is = "none" /\ "none" \notin PaidStatuses
<1>1. \A x \in Changes : /\ x.is # "none" /\ x.type # "checkout"
                         /\ x.sub \in Subs /\ x.price \in Prices
                         /\ x.is \in PaidStatuses \cup {"ended"}
  BY DEF Changes, PaidStatuses
<1>2. NotBought.is = "none" BY DEF NotBought
<1>3. "none" \notin PaidStatuses BY DEF PaidStatuses
<1> QED BY <1>1, <1>2, <1>3

LEMMA PlansOfPrices ==
  \A price : getPlanFromPriceId(price) \in {"free", "startup", "business"}
  BY DEF getPlanFromPriceId

(* Two customers are more than one.  *)
LEMMA TwoCustomers ==
  ASSUME NEW S, IsFiniteSet(S), NEW c \in S, NEW d \in S, c # d
  PROVE  Cardinality(S) > 1
<1>1. IsFiniteSet({c}) /\ Cardinality({c}) = 1 BY FS_Singleton
<1> DEFINE One == {c}
<1>0. d \notin One OBVIOUS
<1> HIDE DEF One
<1>2. IsFiniteSet(One \cup {d}) /\ Cardinality(One \cup {d}) = 2
  <2>1. IsFiniteSet(One) /\ Cardinality(One) = 1 BY <1>1 DEF One
  <2>2. /\ IsFiniteSet(One \cup {d})
        /\ Cardinality(One \cup {d})
             = IF d \in One THEN Cardinality(One) ELSE Cardinality(One) + 1
    BY <2>1, FS_AddElement
  <2> QED BY <1>0, <2>1, <2>2
<1>3. Cardinality(One \cup {d}) <= Cardinality(S) BY FS_Subset DEF One
<1>4. Cardinality(S) \in Nat BY FS_CardinalityType
<1> QED BY <1>2, <1>3, <1>4

(* What makes a user an extraordinary one cannot be undone. *)
LEMMA OrdinaryIsOnlyLost ==
  ASSUME StripeTypes, StripeTypes', customers \subseteq customers', outbox \subseteq outbox',
         customers \ addressed \subseteq customers' \ addressed', Bought \subseteq Bought'
  PROVE  Ordinary' => Ordinary
<1>1. Cardinality(customers) <= Cardinality(customers')
      /\ Cardinality(customers) \in Nat /\ Cardinality(customers') \in Nat
  BY FS_Subset, FS_CardinalityType DEF StripeTypes
<1>2. IsFiniteSet(Bought) /\ IsFiniteSet(Bought')
  BY FS_Subset, BillingConstants DEF Bought
<1>3. Cardinality(Bought) <= Cardinality(Bought')
      /\ Cardinality(Bought) \in Nat /\ Cardinality(Bought') \in Nat
  BY <1>2, FS_Subset, FS_CardinalityType
<1>4. ListLimit \in Nat BY BillingConstants
<1>5. SUFFICES ASSUME Ordinary' PROVE Ordinary OBVIOUS
<1>6. Cardinality(customers) <= 1 BY <1>1, <1>5 DEF Ordinary
<1>7. customers \subseteq addressed BY <1>5 DEF Ordinary
<1>8. \A e \in outbox : e.type # "checkout" => getPlanFromPriceId(e.price) # "free"
  BY <1>5 DEF Ordinary, getPlanFromPriceId
<1>9. Cardinality(Bought) <= ListLimit BY <1>3, <1>4, <1>5 DEF Ordinary
<1> QED BY <1>6, <1>7, <1>8, <1>9 DEF Ordinary

(* A step that is none of the profile requests. *)
LEMMA FetchesSame ==
  ASSUME BillingInv, StripeTypes', UNCHANGED fetch, Active \subseteq Active',
         Bought \subseteq Bought', customers \subseteq customers', outbox \subseteq outbox',
         customers \ addressed \subseteq customers' \ addressed'
  PROVE  FetchInv'
<1>1. Ordinary' => Ordinary BY OrdinaryIsOnlyLost DEF BillingInv, StripeInv
<1>2. ASSUME NEW f \in Fetches PROVE FetchOK(fetch[f])'
  <2>1. FetchOK(fetch[f]) BY DEF BillingInv, FetchInv
  <2> QED BY <1>1, <2>1 DEF FetchOK
<1> QED BY <1>2 DEF BillingInv, FetchInv

LEMMA TablesSame ==
  ASSUME TableInv, UNCHANGED <<hookVars, tableVars>>, outbox \subseteq outbox',
         customers \subseteq customers'
  PROVE  TableInv'
<1>1. UNCHANGED <<recorded, writing, linked, rows, owned>>
  BY DEF hookVars, tableVars, rowVars
<1>2. \A plan : Priced(plan) => Priced(plan)' BY DEF Priced, getPlanFromPriceId
<1>3. OneLink' BY <1>1 DEF TableInv, OneLink
<1>4. (\A s \in Subs : rows[s].is \in PaidStatuses => Priced(rows[s].plan))'
  BY <1>1, <1>2 DEF TableInv
<1> QED BY <1>1, <1>3, <1>4 DEF TableInv

-----------------------------------------------------------------------------
LEMMA BuySteps ==
  ASSUME BillingInv, NEW s \in Subs, NEW c \in Customers, NEW is \in PaidStatuses,
         NEW price \in Prices, Buy(s, c, is, price)
  PROVE  BillingInv'
<1> USE DEF hookVars, tableVars, rowVars
<1> DEFINE bought == Changed("updated", s, is, price)
           paid == [type |-> "checkout", customer |-> c, number |-> ticks + 1]
<1>0. StripeInv /\ StripeTypes BY DEF BillingInv, StripeInv
<1>1. ticks \in Nat /\ MaxChanges \in Nat /\ ticks < MaxChanges /\ ticks' = ticks + 1
  BY <1>0, BillingConstants DEF StripeTypes, Buy, AtStripe
<1>2. bought \in Changes /\ bought.sub = s /\ bought.type = "updated" /\ bought.is = is
  BY <1>1 DEF Changed, Changes
<1>3. paid \in EventsOfStripe /\ paid.type = "checkout" /\ paid.customer = c
  BY <1>1 DEF EventsOfStripe
<1>4. /\ c \in customers \ erased /\ status[s] = NotBought
      /\ UNCHANGED <<customers, addressed, erased, linked, fetch>>
      /\ sessions' \subseteq customers
      /\ customerOf' = [customerOf EXCEPT ![s] = c]
      /\ created' = [created EXCEPT ![s] = ticks + 1]
      /\ status' = [status EXCEPT ![s] = bought]
      /\ tagged' \in {tagged, tagged \cup {s}}
      /\ outbox' = outbox \cup {bought, paid}
  BY <1>0 DEF Buy, StripeTypes
<1> HIDE DEF bought, paid
<1>5. StripeTypes'
  BY <1>0, <1>1, <1>2, <1>3, <1>4 DEF StripeTypes, EventsOfStripe
<1>6. /\ status'[s] = bought /\ \A r \in Subs : r # s => status'[r] = status[r]
      /\ customerOf'[s] = c /\ \A r \in Subs : r # s => customerOf'[r] = customerOf[r]
  BY <1>0, <1>4 DEF StripeTypes
<1>7. Active' = Active \cup {s} /\ Bought \subseteq Bought'
  <2>1. status'[s].is \in PaidStatuses /\ status'[s].is # "none"
    BY <1>2, <1>6, ChangesAreNoBlank
  <2> QED BY <1>6, <2>1 DEF Active, Bought
<1>8. StripeInv'
  <2>1. ASSUME NEW r \in Subs, status'[r] # NotBought
        PROVE  status'[r] \in outbox' /\ status'[r].sub = r
    BY <1>0, <1>2, <1>4, <1>6, <2>1 DEF StripeInv
  <2>2. ASSUME NEW r \in Subs, status'[r] # NotBought \/ r \in tagged'
        PROVE  customerOf'[r] \in customers'
    BY <1>0, <1>4, <1>6, <2>2 DEF StripeInv
  <2>3. ASSUME NEW r \in Active' PROVE customerOf'[r] \notin erased'
    BY <1>0, <1>4, <1>6, <1>7 DEF StripeInv, Active
  <2>4. ASSUME NEW e \in outbox'
        PROVE  /\ e.type = "checkout" => e.customer \in customers'
               /\ e.type = "deleted" => e.is = "ended"
    BY <1>0, <1>2, <1>3, <1>4 DEF StripeInv
  <2> QED BY <1>5, <2>1, <2>2, <2>3, <2>4 DEF StripeInv
<1>9. EffectInv' BY DEF Buy, BillingInv, EffectInv
<1>10. TableInv'
  <2>1. UNCHANGED <<hookVars, tableVars>> BY DEF Buy
  <2> QED BY <1>4, <2>1, TablesSame DEF BillingInv
<1>11. FetchInv' BY <1>4, <1>5, <1>7, FetchesSame
<1> QED BY <1>8, <1>9, <1>10, <1>11 DEF BillingInv

LEMMA ChangeSteps ==
  ASSUME BillingInv, NEW s \in Subs, NEW type \in {"updated", "deleted"},
         NEW is \in PaidStatuses \cup {"ended"}, NEW price \in Prices,
         Change(s, type, is, price)
  PROVE  BillingInv'
<1> USE DEF hookVars, tableVars, rowVars
<1> DEFINE changed == Changed(type, s, is, price)
<1>0. StripeInv /\ StripeTypes BY DEF BillingInv, StripeInv
<1>1. ticks \in Nat /\ MaxChanges \in Nat /\ ticks < MaxChanges /\ ticks' = ticks + 1
  BY <1>0, BillingConstants DEF StripeTypes, Change, AtStripe
<1>2. changed \in Changes /\ changed.sub = s /\ changed.type = type /\ changed.is = is
  BY <1>1 DEF Changed, Changes
<1>4. /\ status[s] # NotBought /\ customerOf[s] \notin erased
      /\ type = "deleted" => is = "ended"
      /\ UNCHANGED <<customers, addressed, erased, sessions, customerOf, created, tagged>>
      /\ status' = [status EXCEPT ![s] = changed]
      /\ outbox' = outbox \cup {changed}
  BY DEF Change
<1> HIDE DEF changed
<1>5. StripeTypes'
  BY <1>0, <1>1, <1>2, <1>4 DEF StripeTypes, EventsOfStripe
<1>6. status'[s] = changed /\ \A r \in Subs : r # s => status'[r] = status[r]
  BY <1>0, <1>4 DEF StripeTypes
<1>7. /\ Active \ {s} \subseteq Active' /\ Active' \subseteq Active \cup {s}
      /\ is \in PaidStatuses => Active \subseteq Active'
      /\ Bought \subseteq Bought'
  <2>1. status'[s].is = is /\ is # "none" BY <1>2, <1>6, ChangesAreNoBlank
  <2> QED BY <1>6, <2>1 DEF Active, Bought
<1>8. StripeInv'
  <2>1. ASSUME NEW r \in Subs, status'[r] # NotBought
        PROVE  /\ status'[r] \in outbox' /\ status'[r].sub = r
               /\ customerOf'[r] \in customers'
    BY <1>0, <1>2, <1>4, <1>6, <2>1 DEF StripeInv
  <2>2. ASSUME NEW r \in Subs, r \in tagged' PROVE customerOf'[r] \in customers'
    BY <1>0, <1>4, <2>2 DEF StripeInv
  <2>3. ASSUME NEW r \in Active' PROVE customerOf'[r] \notin erased'
    BY <1>0, <1>4, <1>7 DEF StripeInv
  <2>4. ASSUME NEW e \in outbox'
        PROVE  /\ e.type = "checkout" => e.customer \in customers'
               /\ e.type = "deleted" => e.is = "ended"
    <3>1. changed.type # "checkout" BY <1>2, ChangesAreNoBlank
    <3> QED BY <1>0, <1>2, <1>4, <3>1 DEF StripeInv
  <2> QED BY <1>5, <2>1, <2>2, <2>3, <2>4 DEF StripeInv
<1>9. EffectInv' BY DEF Change, BillingInv, EffectInv
<1>10. TableInv'
  <2>1. UNCHANGED <<hookVars, tableVars>> BY DEF Change
  <2> QED BY <1>4, <2>1, TablesSame DEF BillingInv
<1>11. FetchInv'
  <2>1. CASE is \in PaidStatuses
    <3>1. fetch' = fetch BY <2>1 DEF Change
    <3> QED BY <1>4, <1>5, <1>7, <2>1, <3>1, FetchesSame
  <2>2. CASE is \notin PaidStatuses
    <3>1. fetch' = [f \in Fetches |-> [fetch[f] EXCEPT !.owed = @ \ {s}]]
      BY <2>2 DEF Change
    <3>2. Ordinary' => Ordinary BY <1>0, <1>4, <1>5, <1>7, OrdinaryIsOnlyLost
    <3>3. ASSUME NEW f \in Fetches PROVE fetch'[f] \in FetchType /\ FetchOK(fetch[f])'
      <4>1. FetchOK(fetch[f]) /\ fetch[f] \in FetchType
        BY DEF BillingInv, FetchInv, FetchOK
      <4>2. /\ fetch'[f] \in FetchType /\ fetch'[f].owed = fetch[f].owed \ {s}
            /\ fetch'[f].step = fetch[f].step /\ fetch'[f].seen = fetch[f].seen
            /\ fetch'[f].customer = fetch[f].customer
            /\ fetch'[f].answer = fetch[f].answer
        BY <3>1, <4>1 DEF FetchType
      <4>3. outbox \subseteq outbox' /\ customers' = customers BY <1>4
      <4> QED BY <1>7, <3>2, <4>1, <4>2, <4>3 DEF FetchOK
    <3> QED BY <3>1, <3>3 DEF FetchInv
  <2> QED BY <2>1, <2>2
<1> QED BY <1>8, <1>9, <1>10, <1>11 DEF BillingInv

LEMMA CustomerSteps ==
  ASSUME BillingInv, NEW c \in Customers, Readdress(c) \/ EraseCustomer(c)
  PROVE  BillingInv'
<1> USE DEF hookVars, tableVars, rowVars
<1>0. StripeInv /\ StripeTypes BY DEF BillingInv, StripeInv
<1>1. ticks \in Nat /\ ticks' = ticks + 1
  BY <1>0 DEF StripeTypes, Readdress, EraseCustomer, AtStripe
<1>2. /\ UNCHANGED <<customers, sessions, customerOf, created, tagged, status, outbox,
                     fetch, linked, rows, owned>>
      /\ UNCHANGED <<hookVars, tableVars>>
      /\ addressed' \subseteq addressed /\ erased' \subseteq erased \cup {c}
      /\ erased' = erased \/ (c \in customers /\ \A s \in Active : customerOf[s] # c)
  BY DEF Readdress, EraseCustomer
<1>3. StripeTypes' BY <1>0, <1>1, <1>2 DEF StripeTypes
<1>4. Active' = Active /\ Bought' = Bought BY <1>2 DEF Active, Bought
<1>5. StripeInv' BY <1>0, <1>2, <1>3, <1>4 DEF StripeInv
<1>6. EffectInv' BY <1>2 DEF BillingInv, EffectInv
<1>7. TableInv' BY <1>2, TablesSame DEF BillingInv
<1>8. FetchInv' BY <1>2, <1>3, <1>4, FetchesSame
<1> QED BY <1>5, <1>6, <1>7, <1>8 DEF BillingInv

-----------------------------------------------------------------------------
LEMMA StripeSame ==
  ASSUME StripeInv, UNCHANGED stripeVars
  PROVE  /\ StripeInv' /\ StripeTypes'
         /\ Active' = Active /\ Bought' = Bought /\ Ordinary' = Ordinary
         /\ UNCHANGED <<customers, addressed, outbox>>
<1>1. UNCHANGED <<customers, addressed, erased, sessions, customerOf, tagged, ticks,
                  created, status, outbox>>
  BY DEF stripeVars
<1>2. StripeTypes' BY <1>1 DEF StripeInv, StripeTypes
<1>3. Active' = Active /\ Bought' = Bought BY <1>1 DEF Active, Bought
<1>4. StripeInv' BY <1>1, <1>2, <1>3 DEF StripeInv
<1>5. Ordinary' = Ordinary BY <1>1, <1>3 DEF Ordinary, getPlanFromPriceId
<1> QED BY <1>1, <1>2, <1>3, <1>4, <1>5

LEMMA LinkStaysOne ==
  ASSUME OneLink, NEW c, CanLink(c)
  PROVE  \A x, y \in linked \cup {c} : x = y
  BY DEF OneLink, CanLink

LEMMA LinkWritten ==
  ASSUME StripeInv, TableInv, NEW s \in Subs, CanUpsert(s), LinkCustomerOf(s)
  PROVE  linked' \subseteq customers /\ OneLink'
<1>1. CASE s \in tagged
  <2>1. CanLink(customerOf[s]) /\ linked' = linked \cup {customerOf[s]}
    BY <1>1 DEF CanUpsert, LinkCustomerOf
  <2>2. customerOf[s] \in customers BY <1>1 DEF StripeInv
  <2>3. OneLink' BY <2>1, LinkStaysOne DEF TableInv, OneLink
  <2> QED BY <2>1, <2>2, <2>3 DEF TableInv
<1>2. CASE s \notin tagged BY <1>2 DEF LinkCustomerOf, TableInv, OneLink
<1> QED BY <1>1, <1>2

LEMMA RowWritten ==
  ASSUME TableInv, NEW e \in outbox, e \in Changes,
         \/ WriteRow(e)
         \/ markSubscriptionCanceled(e) /\ e.is = "ended"
  PROVE  /\ rows' \in [Subs -> Rows] /\ owned' \subseteq Subs
         /\ \A s \in Subs : rows'[s].is \in PaidStatuses => Priced(rows'[s].plan)
<1>1. e.sub \in Subs /\ e.is \in PaidStatuses \cup {"ended"} /\ e.type # "checkout"
  BY ChangesAreNoBlank
<1>2. owned' \subseteq Subs BY <1>1 DEF TableInv, WriteRow, markSubscriptionCanceled
<1>3. PICK row \in Rows : /\ rows' = [rows EXCEPT ![e.sub] = row]
                          /\ row.is \in PaidStatuses => Priced(row.plan)
  <2>1. CASE WriteRow(e)
    <3> DEFINE row == [is |-> e.is, plan |-> getPlanFromPriceId(e.price)]
    <3>1. row \in Rows BY <1>1, PlansOfPrices DEF Rows
    <3>2. Priced(row.plan) BY <1>1 DEF Priced
    <3>3. rows' = [rows EXCEPT ![e.sub] = row] BY <2>1 DEF WriteRow
    <3> HIDE DEF row
    <3> QED BY <3>1, <3>2, <3>3
  <2>2. CASE markSubscriptionCanceled(e) /\ e.is = "ended"
    <3> DEFINE row == [is |-> e.is, plan |-> "free"]
    <3>1. row \in Rows /\ row.is \notin PaidStatuses BY <2>2 DEF Rows, PaidStatuses
    <3>2. rows' = [rows EXCEPT ![e.sub] = row] BY <2>2 DEF markSubscriptionCanceled
    <3> HIDE DEF row
    <3> QED BY <3>1, <3>2
  <2> QED BY <2>1, <2>2
<1>4. rows' \in [Subs -> Rows] BY <1>1, <1>3 DEF TableInv
<1>5. \A s \in Subs : rows'[s].is \in PaidStatuses => Priced(rows'[s].plan)
  BY <1>1, <1>3 DEF TableInv
<1> QED BY <1>2, <1>4, <1>5

(* The tables after a step that Stripe has no part in. *)
LEMMA TablesWritten ==
  ASSUME StripeInv, TableInv, UNCHANGED stripeVars,
         linked' \subseteq customers /\ OneLink',
         rows' \in [Subs -> Rows] /\ owned' \subseteq Subs,
         \A s \in Subs : rows'[s].is \in PaidStatuses => Priced(rows'[s].plan),
         recorded' \subseteq outbox, writing' \subseteq recorded',
         \A e \in writing' : e.type = "updated"
  PROVE  TableInv'
<1>1. UNCHANGED <<customers, outbox>> BY DEF stripeVars
<1>2. \A plan : Priced(plan) => Priced(plan)' BY <1>1 DEF Priced, getPlanFromPriceId
<1>3. (\A s \in Subs : rows[s].is \in PaidStatuses => Priced(rows[s].plan))'
  BY <1>2
<1> QED BY <1>1, <1>3 DEF TableInv

LEMMA HookSteps ==
  ASSUME BillingInv, NEW e \in outbox, EventRuns(e)
  PROVE  BillingInv'
<1>0. StripeInv /\ TableInv /\ EffectInv /\ FetchInv BY DEF BillingInv
<1>1. UNCHANGED stripeVars /\ fetch' = fetch
  BY DEF EventRuns, RecordEvent, ProcessEvent, ProcessRow, ProcessFails
<1>2. StripeInv' BY <1>0, <1>1, StripeSame
<1>3. FetchInv' BY <1>0, <1>1, StripeSame, FetchesSame
<1>4. e \in Changes \/ e.type = "checkout"
  BY <1>0 DEF StripeInv, StripeTypes, EventsOfStripe
<1>5. CASE RecordEvent(e) \/ ProcessFails(e)
  <2>1. EffectInv' BY <1>0, <1>5 DEF RecordEvent, ProcessFails, EffectInv
  <2>2. UNCHANGED <<linked, rows, owned>>
    BY <1>5 DEF RecordEvent, ProcessFails, tableVars, rowVars
  <2>3. OneLink' BY <1>0, <2>2 DEF TableInv, OneLink
  <2>4. /\ recorded' \subseteq outbox /\ writing' \subseteq recorded'
        /\ \A x \in writing' : x.type = "updated"
    BY <1>0, <1>5 DEF RecordEvent, ProcessFails, TableInv
  <2>5. TableInv' BY <1>0, <1>1, <2>2, <2>3, <2>4, TablesWritten DEF TableInv
  <2> QED BY <1>2, <1>3, <2>1, <2>5 DEF BillingInv
<1>6. CASE ProcessEvent(e)
  <2>1. /\ e \in working /\ working' = working \ {e} /\ recorded' = recorded
        /\ effects' = [x \in DOMAIN effects \cup {e} |->
                         IF x # e THEN effects[x]
                         ELSE IF e \in DOMAIN effects THEN effects[e] + 1 ELSE 1]
    BY <1>6 DEF ProcessEvent
  <2>2. e \notin DOMAIN effects /\ e \in recorded BY <1>0, <2>1 DEF EffectInv
  <2>3. EffectInv' BY <1>0, <2>1, <2>2 DEF EffectInv
  <2>4. CASE e.type = "checkout"
    <3>1. /\ CanLink(e.customer) /\ linked' = linked \cup {e.customer}
          /\ UNCHANGED <<rows, owned, writing>>
      BY <1>6, <2>4 DEF ProcessEvent, rowVars
    <3>2. e.customer \in customers BY <1>0, <2>4 DEF StripeInv
    <3>3. OneLink' BY <1>0, <3>1, LinkStaysOne DEF TableInv, OneLink
    <3>4. TableInv' BY <1>0, <1>1, <2>1, <3>1, <3>2, <3>3, TablesWritten DEF TableInv
    <3> QED BY <1>2, <1>3, <2>3, <3>4 DEF BillingInv
  <2>5. CASE e.type = "updated"
    <3>1. /\ CanUpsert(e.sub) /\ LinkCustomerOf(e.sub)
          /\ UNCHANGED <<rows, owned>> /\ writing' = writing \cup {e}
      BY <1>6, <2>5 DEF ProcessEvent, rowVars
    <3>2. e.sub \in Subs BY <1>4, <2>5, ChangesAreNoBlank
    <3>3. linked' \subseteq customers /\ OneLink' BY <1>0, <3>1, <3>2, LinkWritten
    <3>4. TableInv'
      BY <1>0, <1>1, <2>1, <2>2, <2>5, <3>1, <3>3, TablesWritten DEF TableInv
    <3> QED BY <1>2, <1>3, <2>3, <3>4 DEF BillingInv
  <2>6. CASE e.type = "deleted"
    <3>1. markSubscriptionCanceled(e) /\ UNCHANGED <<linked, writing>>
      BY <1>6, <2>6 DEF ProcessEvent
    <3>2. e.is = "ended" BY <1>0, <2>6 DEF StripeInv
    <3>3. OneLink' BY <1>0, <3>1 DEF TableInv, OneLink
    <3>4. /\ rows' \in [Subs -> Rows] /\ owned' \subseteq Subs
          /\ \A s \in Subs : rows'[s].is \in PaidStatuses => Priced(rows'[s].plan)
      BY <1>0, <1>4, <2>6, <3>1, <3>2, RowWritten
    <3>5. TableInv'
      BY <1>0, <1>1, <2>1, <3>1, <3>3, <3>4, TablesWritten DEF TableInv
    <3> QED BY <1>2, <1>3, <2>3, <3>5 DEF BillingInv
  <2> QED BY <1>6, <2>4, <2>5, <2>6 DEF ProcessEvent
<1>7. CASE ProcessRow(e)
  <2>1. /\ e \in writing /\ WriteRow(e) /\ writing' = writing \ {e}
        /\ UNCHANGED <<recorded, working, effects, linked>>
    BY <1>7 DEF ProcessRow
  <2>2. e \in Changes BY <1>0, <1>4, <2>1 DEF TableInv
  <2>3. EffectInv' BY <1>0, <2>1 DEF EffectInv
  <2>4. OneLink' BY <1>0, <2>1 DEF TableInv, OneLink
  <2>5. /\ rows' \in [Subs -> Rows] /\ owned' \subseteq Subs
        /\ \A s \in Subs : rows'[s].is \in PaidStatuses => Priced(rows'[s].plan)
    BY <1>0, <2>1, <2>2, RowWritten
  <2>6. TableInv' BY <1>0, <1>1, <2>1, <2>4, <2>5, TablesWritten DEF TableInv
  <2> QED BY <1>2, <1>3, <2>3, <2>6 DEF BillingInv
<1> QED BY <1>5, <1>6, <1>7 DEF EventRuns

LEMMA CandidatesAreCustomers ==
  ASSUME StripeInv, NEW known, NEW c \in Candidates(known)
  PROVE  c \in customers
  BY DEF StripeInv, StripeTypes, Candidates

LEMMA CheckoutSteps ==
  ASSUME BillingInv, NEW k \in Checkouts,
         FindCustomer(k) \/ \E c \in Customers : CreateCustomer(k, c)
  PROVE  BillingInv'
<1> USE DEF hookVars, rowVars
<1>0. StripeInv /\ StripeTypes /\ TableInv /\ EffectInv BY DEF BillingInv, StripeInv
<1>1. PICK c :
        /\ \/ customers' = customers /\ addressed' = addressed
           \/ /\ c \in Customers \ customers
              /\ customers' = customers \cup {c} /\ addressed' = addressed \cup {c}
        /\ \/ linked' = linked /\ sessions' = sessions
           \/ /\ CanLink(c) /\ c \in customers'
              /\ linked' = linked \cup {c} /\ sessions' = sessions \cup {c}
  <2>1. CASE FindCustomer(k)
    <3>1. customers' = customers /\ addressed' = addressed BY <2>1 DEF FindCustomer
    <3>2. CASE linked' = linked /\ sessions' = sessions BY <3>1, <3>2
    <3>3. CASE \E known, c : /\ c \in Candidates(known) /\ CanLink(c)
                            /\ linked' = linked \cup {c} /\ sessions' = sessions \cup {c}
      BY <1>0, <3>1, <3>3, CandidatesAreCustomers
    <3> QED BY <2>1, <3>2, <3>3 DEF FindCustomer
  <2>2. CASE \E c \in Customers : CreateCustomer(k, c) BY <2>2 DEF CreateCustomer
  <2> QED BY <2>1, <2>2
<1>2. UNCHANGED <<erased, customerOf, tagged, ticks, created, status, outbox, recorded,
                  working, writing, effects, rows, owned, fetch>>
  BY DEF FindCustomer, CreateCustomer
<1>3. IsFiniteSet(customers') BY <1>0, <1>1, FS_AddElement DEF StripeTypes
<1>4. StripeTypes' BY <1>0, <1>1, <1>2, <1>3 DEF StripeTypes
<1>5. Active' = Active /\ Bought' = Bought BY <1>2 DEF Active, Bought
<1>6. StripeInv'
  <2>1. customers \subseteq customers' BY <1>1
  <2> QED BY <1>0, <1>2, <1>4, <1>5, <2>1 DEF StripeInv
<1>7. TableInv'
  <2>1. OneLink' BY <1>0, <1>1, LinkStaysOne DEF TableInv, OneLink
  <2>2. linked' \subseteq customers' BY <1>0, <1>1 DEF TableInv
  <2>3. \A plan : Priced(plan) => Priced(plan)' BY <1>2 DEF Priced, getPlanFromPriceId
  <2>4. (\A s \in Subs : rows[s].is \in PaidStatuses => Priced(rows[s].plan))'
    BY <1>0, <1>2, <2>3 DEF TableInv
  <2> QED BY <1>0, <1>2, <2>1, <2>2, <2>4 DEF TableInv
<1>8. EffectInv' BY <1>0, <1>2 DEF EffectInv
<1>9. FetchInv'
  <2>1. /\ customers \subseteq customers' /\ outbox \subseteq outbox'
        /\ customers \ addressed \subseteq customers' \ addressed'
    BY <1>1, <1>2
  <2> QED BY <1>2, <1>4, <1>5, <2>1, FetchesSame
<1> QED BY <1>6, <1>7, <1>8, <1>9 DEF BillingInv

-----------------------------------------------------------------------------
(* An ordinary user who pays has one customer, which is found by its       *)
(* address, and all subscriptions of which are listed.                     *)
LEMMA PayerIsFound ==
  ASSUME StripeInv, Ordinary, NEW s \in Active
  PROVE  /\ customerOf[s] \in addressed \ erased
         /\ \A c \in customers : c = customerOf[s]
         /\ s \in Listed(customerOf[s])
<1> DEFINE c == customerOf[s]
<1>1. s \in Subs /\ status[s] # NotBought /\ s \in Bought
  BY ChangesAreNoBlank DEF Active, Bought
<1>2. c \in customers /\ c \in addressed /\ c \notin erased
  BY <1>1 DEF StripeInv, Ordinary
<1>3. IsFiniteSet(customers) /\ Cardinality(customers) <= 1
      /\ Cardinality(customers) \in Nat
  BY FS_CardinalityType DEF StripeInv, StripeTypes, Ordinary
<1>4. ASSUME NEW d \in customers PROVE d = c
  <2>1. CASE d # c
    <3>1. Cardinality(customers) > 1 BY <1>2, <1>3, <2>1, TwoCustomers
    <3> QED BY <1>3, <3>1
  <2> QED BY <2>1
<1>5. Cardinality(Newer(s)) < ListLimit
  <2>1. IsFiniteSet(Bought) BY FS_Subset, BillingConstants DEF Bought
  <2>2. /\ IsFiniteSet(Bought \ {s}) /\ Cardinality(Bought) \in Nat
        /\ Cardinality(Bought \ {s}) = Cardinality(Bought) - 1
    BY <1>1, <2>1, FS_RemoveElement, FS_CardinalityType
  <2>3. created[s] \in Nat BY <1>1 DEF StripeInv, StripeTypes
  <2>4. Newer(s) \subseteq Bought \ {s} BY <2>3 DEF Newer
  <2>5. Cardinality(Newer(s)) <= Cardinality(Bought \ {s})
        /\ Cardinality(Newer(s)) \in Nat
    BY <2>2, <2>4, FS_Subset, FS_CardinalityType
  <2>6. ListLimit \in Nat /\ Cardinality(Bought) <= ListLimit
    BY BillingConstants DEF Ordinary
  <2> QED BY <2>2, <2>5, <2>6
<1> QED BY <1>1, <1>2, <1>4, <1>5 DEF Listed

(* A profile request goes on. *)
LEMMA FetchGoesOn ==
  ASSUME BillingInv, NEW f \in Fetches, NEW r, FetchOK(r),
         fetch' = [fetch EXCEPT ![f] = r], UNCHANGED <<stripeVars, hookVars>>, TableInv'
  PROVE  BillingInv'
<1>1. StripeInv' BY StripeSame DEF BillingInv
<1>2. EffectInv' BY DEF BillingInv, EffectInv, hookVars
<1>3. /\ Active' = Active /\ Ordinary' = Ordinary
      /\ UNCHANGED <<customers, outbox>>
  BY StripeSame DEF BillingInv
<1>4. \A x : FetchOK(x) => FetchOK(x)' BY <1>3 DEF FetchOK
<1>5. r \in FetchType BY DEF FetchOK
<1>6. ASSUME NEW g \in Fetches PROVE FetchOK(fetch[g])'
  <2>1. FetchOK(fetch[g]) /\ fetch \in [Fetches -> FetchType]
    BY DEF BillingInv, FetchInv
  <2>2. fetch'[g] = r \/ fetch'[g] = fetch[g] BY <2>1
  <2> QED BY <1>4, <2>1, <2>2
<1>7. FetchInv' BY <1>5, <1>6 DEF BillingInv, FetchInv
<1> QED BY <1>1, <1>2, <1>7 DEF BillingInv

LEMMA FetchSteps ==
  ASSUME BillingInv, NEW f \in Fetches, ProfileRuns(f)
  PROVE  BillingInv'
<1>0. /\ StripeInv /\ TableInv /\ FetchOK(fetch[f]) /\ fetch[f] \in FetchType
      /\ fetch \in [Fetches -> FetchType]
  BY DEF BillingInv, FetchInv
<1>1. UNCHANGED <<stripeVars, hookVars>>
  BY DEF ProfileRuns, StartFetch, ReadStored, ReadLink, AskStripe, ListSubscriptions,
         StoreLink, StoreAnswer
<1> DEFINE Answered(plan) == [fetch[f] EXCEPT !.step = "done", !.answer = plan]
<1>2. ASSUME NEW plan \in Answers, Answer(f, plan), TableInv',
             plan = "free" => fetch[f].owed = {} \/ ~Ordinary
      PROVE  BillingInv'
  <2>1. fetch' = [fetch EXCEPT ![f] = Answered(plan)] BY <1>2 DEF Answer
  <2>2. FetchOK(Answered(plan)) BY <1>0, <1>2 DEF FetchOK, FetchType
  <2> HIDE DEF Answered
  <2> QED BY <1>1, <1>2, <2>1, <2>2, FetchGoesOn
<1> HIDE DEF Answered
<1>3. UNCHANGED tableVars => TableInv'
  BY <1>0, <1>1, TablesSame DEF stripeVars
<1>4. ASSUME UNCHANGED rowVars, linked' \subseteq customers, OneLink' PROVE TableInv'
  <2>1. UNCHANGED <<rows, owned, recorded, writing>> BY <1>1, <1>4 DEF rowVars, hookVars
  <2> QED BY <1>0, <1>1, <1>4, <2>1, TablesWritten DEF TableInv
<1>5. ASSUME NEW s \in fetch[f].owed, Ordinary
      PROVE  /\ customerOf[s] \in addressed \ erased /\ s \in Active
             /\ \A c \in customers : c = customerOf[s]
             /\ s \in Listed(customerOf[s])
  BY <1>0, <1>5, PayerIsFound DEF FetchOK
<1>6. CASE StartFetch(f)
  <2> DEFINE r == [NoFetch EXCEPT !.step = "stored", !.owed = Active]
  <2>1. FetchOK(r) BY DEF NoFetch, FetchOK, FetchType, Answers, Active
  <2>2. fetch' = [fetch EXCEPT ![f] = r] /\ UNCHANGED tableVars BY <1>6 DEF StartFetch
  <2> HIDE DEF r
  <2> QED BY <1>1, <1>3, <2>1, <2>2, FetchGoesOn
<1>7. CASE ReadStored(f)
  <2>0. TableInv' BY <1>3, <1>7 DEF ReadStored
  <2>1. ASSUME NEW s \in Subs, rows[s].is \in PaidStatuses,
               Answer(f, getPlanFromSubscriptionRecord(rows[s]))
        PROVE  BillingInv'
    <3> DEFINE plan == getPlanFromSubscriptionRecord(rows[s])
    <3>1. rows[s] \in Rows BY <1>0 DEF TableInv
    <3>2. plan = "trial" \/ plan = rows[s].plan BY DEF getPlanFromSubscriptionRecord
    <3>3. plan \in Answers BY <3>1, <3>2 DEF Rows, Answers
    <3>4. plan = "free" => ~Ordinary
      <4>1. Priced(rows[s].plan) BY <1>0, <2>1 DEF TableInv
      <4> QED BY <3>2, <4>1 DEF Priced, Ordinary
    <3> HIDE DEF plan
    <3> QED BY <1>2, <2>0, <2>1, <3>3, <3>4 DEF plan
  <2>2. CASE fetch' = [fetch EXCEPT ![f].step = "lookup"]
    <3> DEFINE r == [fetch[f] EXCEPT !.step = "lookup"]
    <3>1. FetchOK(r) BY <1>0 DEF FetchOK, FetchType
    <3>2. fetch' = [fetch EXCEPT ![f] = r] BY <2>2
    <3> HIDE DEF r
    <3> QED BY <1>1, <2>0, <3>1, <3>2, FetchGoesOn
  <2>3. StoredSubscription \subseteq Subs BY <1>0 DEF StoredSubscription, TableInv
  <2> QED BY <1>7, <2>1, <2>2, <2>3 DEF ReadStored
<1>8. CASE ReadLink(f)
  <2>1. PICK known \in Links :
          fetch' = [fetch EXCEPT ![f].step = "customer", ![f].customer = known]
    BY <1>8 DEF ReadLink
  <2>2. known \in Customers \cup {Nobody}
    BY <1>0 DEF Links, TableInv, StripeInv, StripeTypes
  <2> DEFINE r == [fetch[f] EXCEPT !.step = "customer", !.customer = known]
  <2>3. FetchOK(r) BY <1>0, <2>2 DEF FetchOK, FetchType
  <2>4. fetch' = [fetch EXCEPT ![f] = r] /\ UNCHANGED tableVars
    BY <1>8, <2>1 DEF ReadLink
  <2> HIDE DEF r
  <2> QED BY <1>1, <1>3, <2>3, <2>4, FetchGoesOn
<1>9. CASE AskStripe(f)
  <2> DEFINE known == fetch[f].customer
             On(c) == [fetch[f] EXCEPT !.step = "list", !.customer = c]
  <2>0. UNCHANGED rowVars BY <1>9 DEF AskStripe
  <2>1. ASSUME NEW c \in customers PROVE FetchOK(On(c))
    BY <1>0, <2>1 DEF FetchOK, FetchType, StripeInv, StripeTypes
  <2>2. linked' = linked => TableInv'
    BY <1>0, <1>4, <2>0 DEF TableInv, OneLink
  <2>3. CASE Candidates(known) = {} /\ Answer(f, "free") /\ UNCHANGED linked
    <3>1. fetch[f].owed = {} \/ ~Ordinary
      <4> SUFFICES ASSUME NEW s \in fetch[f].owed, Ordinary PROVE FALSE OBVIOUS
      <4>1. customerOf[s] \in addressed \ erased BY <1>5
      <4> QED BY <2>3, <4>1 DEF Candidates
    <3>2. "free" \in Answers BY DEF Answers
    <3> QED BY <1>2, <2>2, <2>3, <3>1, <3>2
  <2>4. ASSUME NEW c \in Candidates(known), CanLink(c), linked' = linked \cup {c},
               fetch' = [fetch EXCEPT ![f].step = "list", ![f].customer = c]
        PROVE  BillingInv'
    <3>1. c \in customers BY <1>0, <2>4, CandidatesAreCustomers
    <3>2. OneLink' BY <1>0, <2>4, LinkStaysOne DEF TableInv, OneLink
    <3>3. linked' \subseteq customers BY <1>0, <2>4, <3>1 DEF TableInv
    <3>4. TableInv' BY <1>4, <2>0, <3>2, <3>3
    <3>5. fetch' = [fetch EXCEPT ![f] = On(c)] BY <2>4
    <3>6. FetchOK(On(c)) BY <2>1, <3>1
    <3> HIDE DEF On
    <3> QED BY <1>1, <3>4, <3>5, <3>6, FetchGoesOn
  <2>5. CASE Answer(f, "error") /\ UNCHANGED linked
    BY <1>2, <2>2, <2>5 DEF Answers
  <2>6. CASE /\ known \in Candidates(known) /\ UNCHANGED linked
             /\ fetch' = [fetch EXCEPT ![f].step = "list"]
    <3>1. known \in customers BY <1>0, <2>6, CandidatesAreCustomers
    <3>2. fetch' = [fetch EXCEPT ![f] = On(known)] BY <1>0, <2>6 DEF FetchType
    <3>3. FetchOK(On(known)) BY <2>1, <3>1
    <3> HIDE DEF On
    <3> QED BY <1>1, <2>2, <2>6, <3>2, <3>3, FetchGoesOn
  <2> QED BY <1>9, <2>3, <2>4, <2>5, <2>6 DEF AskStripe
<1>10. CASE ListSubscriptions(f)
  <2> DEFINE c == fetch[f].customer
  <2>0. TableInv' /\ c \in customers
    BY <1>0, <1>3, <1>10 DEF ListSubscriptions, FetchOK
  <2>1. CASE Listed(c) \cap Active = {} /\ Answer(f, "free")
    <3>1. fetch[f].owed = {} \/ ~Ordinary
      <4> SUFFICES ASSUME NEW s \in fetch[f].owed, Ordinary PROVE FALSE OBVIOUS
      <4>1. s \in Listed(c) /\ s \in Active BY <1>5, <2>0
      <4> QED BY <2>1, <4>1
    <3>2. "free" \in Answers BY DEF Answers
    <3> QED BY <1>2, <2>0, <2>1, <3>1, <3>2
  <2>2. ASSUME NEW s \in Active,
               fetch' = [fetch EXCEPT ![f].step = "link", ![f].seen = status[s]]
        PROVE  BillingInv'
    <3> DEFINE r == [fetch[f] EXCEPT !.step = "link", !.seen = status[s]]
    <3>1. /\ s \in Subs /\ status[s].is \in PaidStatuses /\ status[s] # NotBought
          /\ status[s] \in Changes \cup {NotBought}
      BY <1>0, ChangesAreNoBlank DEF Active, StripeInv, StripeTypes
    <3>2. status[s] \in outbox /\ status[s] \in Changes
      BY <1>0, <3>1 DEF StripeInv
    <3>3. FetchOK(r) BY <1>0, <3>1, <3>2 DEF FetchOK, FetchType
    <3>4. fetch' = [fetch EXCEPT ![f] = r] BY <2>2
    <3> HIDE DEF r
    <3> QED BY <1>1, <2>0, <3>3, <3>4, FetchGoesOn
  <2> QED BY <1>10, <2>1, <2>2 DEF ListSubscriptions, Newest
<1>11. CASE StoreLink(f)
  <2> DEFINE s == fetch[f].seen.sub
  <2>0. UNCHANGED rowVars /\ fetch[f].step = "link" BY <1>11 DEF StoreLink
  <2>1. s \in Subs BY <1>0, <2>0, ChangesAreNoBlank DEF FetchOK
  <2>2. CASE CanUpsert(s) /\ LinkCustomerOf(s) /\ fetch' = [fetch EXCEPT ![f].step = "row"]
    <3>1. linked' \subseteq customers /\ OneLink' BY <1>0, <2>1, <2>2, LinkWritten
    <3> DEFINE r == [fetch[f] EXCEPT !.step = "row"]
    <3>2. FetchOK(r) BY <1>0, <2>0 DEF FetchOK, FetchType
    <3>3. fetch' = [fetch EXCEPT ![f] = r] BY <2>2
    <3>4. TableInv' BY <1>4, <2>0, <3>1
    <3> HIDE DEF r
    <3> QED BY <1>1, <3>2, <3>3, <3>4, FetchGoesOn
  <2>3. CASE Answer(f, "error") /\ UNCHANGED linked
    <3>1. TableInv' BY <1>0, <1>4, <2>0, <2>3 DEF TableInv, OneLink
    <3> QED BY <1>2, <2>3, <3>1 DEF Answers
  <2> QED BY <1>11, <2>2, <2>3 DEF StoreLink
<1>12. CASE StoreAnswer(f)
  <2> DEFINE e == fetch[f].seen
             plan == PlanOf(e)
  <2>1. e \in outbox /\ e \in Changes BY <1>0, <1>12 DEF FetchOK, StoreAnswer
  <2>2. WriteRow(e) /\ UNCHANGED linked /\ Answer(f, plan) BY <1>12 DEF StoreAnswer
  <2>3. /\ rows' \in [Subs -> Rows] /\ owned' \subseteq Subs
        /\ \A s \in Subs : rows'[s].is \in PaidStatuses => Priced(rows'[s].plan)
    BY <1>0, <2>1, <2>2, RowWritten
  <2>4. UNCHANGED <<recorded, writing>> BY <1>1 DEF hookVars
  <2>5. OneLink' /\ linked' \subseteq customers BY <1>0, <2>2 DEF TableInv, OneLink
  <2>6. TableInv' BY <1>0, <1>1, <2>3, <2>4, <2>5, TablesWritten DEF TableInv
  <2>7. plan = "trial" \/ plan = getPlanFromPriceId(e.price) BY DEF PlanOf
  <2>8. plan \in Answers BY <2>7, PlansOfPrices DEF Answers
  <2>9. plan = "free" => ~Ordinary
    BY <2>1, <2>7, ChangesAreNoBlank DEF Ordinary
  <2> HIDE DEF plan
  <2> QED BY <1>2, <2>2, <2>6, <2>8, <2>9
<1> QED
  BY <1>6, <1>7, <1>8, <1>9, <1>10, <1>11, <1>12 DEF ProfileRuns

LEMMA BillingStep == BillingInv /\ [BillingNext]_billingVars => BillingInv'
<1> SUFFICES ASSUME BillingInv, [BillingNext]_billingVars PROVE BillingInv' OBVIOUS
<1>1. CASE UNCHANGED billingVars
  <2>1. UNCHANGED <<stripeVars, hookVars, tableVars, fetch>> BY <1>1 DEF billingVars
  <2>2. StripeInv' /\ FetchInv' BY <2>1, StripeSame, FetchesSame DEF BillingInv
  <2>3. TableInv' BY <2>1, StripeSame, TablesSame DEF BillingInv
  <2>4. EffectInv' BY <2>1 DEF hookVars, BillingInv, EffectInv
  <2> QED BY <2>2, <2>3, <2>4 DEF BillingInv
<1>2. ASSUME NEW s \in Subs, StripeMoves(s) PROVE BillingInv'
  BY <1>2, BuySteps, ChangeSteps DEF StripeMoves
<1> QED BY <1>1, <1>2, CustomerSteps, HookSteps, CheckoutSteps, FetchSteps DEF BillingNext

LEMMA BillingInvariant == BillingSpec => []BillingInv
  BY BillingInvInit, BillingStep, PTL DEF BillingSpec

(* The types follow from the invariant. *)
LEMMA BillingTypesFollow == BillingInv => BillingTypeOK
<1> SUFFICES ASSUME BillingInv PROVE BillingTypeOK OBVIOUS
<1>1. Cardinality(linked) <= 1
  <2>1. CASE linked = {} BY <2>1, FS_EmptySet
  <2>2. CASE linked # {}
    <3>1. PICK c \in linked : TRUE BY <2>2
    <3>2. linked = {c} BY <3>1 DEF BillingInv, TableInv, OneLink
    <3> QED BY <3>2, FS_Singleton
  <2> QED BY <2>1, <2>2
<1>2. \A s \in Subs : /\ rows[s].is \in PaidStatuses \cup {"ended", "none"}
                      /\ rows[s].plan \in {"free", "startup", "business"}
  BY DEF BillingInv, TableInv, Rows
<1> QED
  BY <1>1, <1>2 DEF BillingInv, EffectInv, StripeInv, StripeTypes, TableInv, BillingTypeOK

(* However often Stripe delivers an event, and whatever else is under way,  *)
(* handleWebhook applies it at most once: the insert into                   *)
(* billing_webhook_events decides.                                          *)
THEOREM EventsApplyOnce == BillingSpec => []AppliedAtMostOnce
<1>1. BillingInv => AppliedAtMostOnce BY DEF BillingInv, EffectInv, AppliedAtMostOnce
<1> QED BY <1>1, BillingInvariant, PTL

(* fetchCurrentBillingProfile never answers "free" to a user who paid all   *)
(* through the request, in whatever order and however incompletely the      *)
(* events of Stripe have been applied, as long as the user has one customer *)
(* under the known address, only ever had configured prices and has had no  *)
(* more subscriptions than the list shows.                                  *)
THEOREM PayersAreServed == BillingSpec => []PaidIsServed
<1>1. BillingInv => PaidIsServed BY DEF BillingInv, FetchInv, FetchOK, PaidIsServed
<1> QED BY <1>1, BillingInvariant, PTL

-----------------------------------------------------------------------------
(* Sharing: requests are between their check and their statement, *)

Ops ==
  [type : {"invite", "insert"}, scope : {"board"}, email : People, grant : Permissions]
  \cup [type : {"invite", "insert"}, scope : {"workspace"}, email : People,
        grant : OfferedRoles]
  \cup [type : {"revoke"}, invite : Invites]
  \cup [type : {"upsert", "change"}, who : People, grant : Permissions, row : Nat]
  \cup [type : {"remove", "unseat"}, who : People, row : Nat]
  \cup [type : {"setLink"}, permission : Permissions, enabled : BOOLEAN]
  \cup [type : {"rotateLink"}, permission : Permissions]
  \cup [type : {"deleteBoard", "favourite", "unfavourite", "leave"}, who : People]

Seats == [role : Roles \cup {"none"}, row : Nat]
Memberships == [permission : Permissions \cup {"none"}, row : Nat]
Statuses == {"none", "pending", "accepted", "revoked", "declined", "gone"}
Invitations ==
  [scope : {"board"}, email : People, grant : Permissions, status : Statuses,
   expired : BOOLEAN]
  \cup [scope : {"workspace"}, email : People, grant : OfferedRoles, status : Statuses,
        expired : BOOLEAN]

TableTypes ==
  /\ boardThere \in BOOLEAN
  /\ seat \in [People -> Seats]
  /\ member \in [People -> Memberships]
  /\ invite \in [Invites -> Invitations]
  /\ link \in [Permissions -> [enabled : BOOLEAN, token : Nat]]
  /\ lastLink \in Nat
  /\ favourites \subseteq People
  /\ call \in [Calls -> Ops \cup {NoCall}]
  /\ uses \in [Invites -> Nat]

(* and link tokens are numbered in the order they are made: two links      *)
(* never have the same one, and a link that is on has one.                 *)
LinkInv ==
  /\ \A k \in Permissions : /\ link[k].token <= lastLink
                            /\ link[k].enabled => link[k].token # 0
  /\ link["view"].token = link["edit"].token => link["view"].token = 0

SharingInv == TableTypes /\ LinkInv /\ TablesConsistent

LEMMA SharingTypesFollow == SharingInv => SharingTypeOK
<1> SUFFICES ASSUME SharingInv PROVE SharingTypeOK OBVIOUS
<1>1. TableTypes /\ LinkInv BY DEF SharingInv
<1>2. ASSUME NEW i \in Invites
      PROVE  /\ invite[i].scope \in Scopes /\ invite[i].email \in People
             /\ invite[i].grant \in (IF invite[i].scope = "board"
                                     THEN Permissions ELSE OfferedRoles)
             /\ invite[i].status \in Statuses
  <2>1. invite[i] \in Invitations BY <1>1 DEF TableTypes
  <2> QED BY <2>1 DEF Invitations, Scopes
<1>3. link \in [Permissions -> [enabled : BOOLEAN, token : 0..lastLink]]
  BY <1>1 DEF TableTypes, LinkInv
<1> QED BY <1>1, <1>2, <1>3 DEF TableTypes, SharingTypeOK, Seats, Memberships, Statuses

LEMMA SharingInvInit == SharingInit => SharingInv
<1> SUFFICES ASSUME SharingInit PROVE SharingInv OBVIOUS
<1>1. NoInvitation \in Invitations /\ NoInvitation.status = "none"
  BY SharingConstants DEF NoInvitation, Invitations, Permissions, Statuses
<1>2. link \in [Permissions -> [enabled : BOOLEAN, token : Nat]]
  BY DEF SharingInit
<1>3. seat \in [People -> Seats] /\ member \in [People -> Memberships]
      /\ seat[Owner].role = "owner"
  BY SharingConstants DEF SharingInit, Seats, Memberships, Roles
<1>4. TableTypes BY <1>1, <1>2, <1>3 DEF SharingInit, TableTypes
<1>5. LinkInv BY DEF SharingInit, LinkInv, Permissions
<1>6. \A i \in Invites : invite[i].status = "none" BY <1>1 DEF SharingInit
<1>7. TablesConsistent
  BY <1>3, <1>6 DEF SharingInit, TablesConsistent, InvitationsGrantOnce, OnePendingEach,
                    OwnerStays, DeletedLeavesNothing
<1> QED BY <1>4, <1>5, <1>7 DEF SharingInv

-----------------------------------------------------------------------------
(* What the parts of a step do. *)

LEMMA ReplyTypes ==
  ASSUME TableTypes, NEW c \in Calls, Reply(c)
  PROVE  call' \in [Calls -> Ops \cup {NoCall}]
  BY DEF TableTypes, Reply

(* A step that only changes the requests. *)
LEMMA OnlyCallsChange ==
  ASSUME SharingInv, call' \in [Calls -> Ops \cup {NoCall}],
         UNCHANGED <<boardThere, seat, member, invite, link, lastLink, favourites, uses>>
  PROVE  SharingInv'
<1>1. TableTypes' BY DEF SharingInv, TableTypes
<1>2. LinkInv' BY DEF SharingInv, LinkInv
<1>3. TablesConsistent'
  BY DEF SharingInv, TablesConsistent, InvitationsGrantOnce, OnePendingEach, OwnerStays,
         DeletedLeavesNothing, SameKey
<1> QED BY <1>1, <1>2, <1>3 DEF SharingInv

(* A step that only changes the members, and none of a deleted board. *)
LEMMA OnlyMembersChange ==
  ASSUME SharingInv, call' \in [Calls -> Ops \cup {NoCall}],
         member' \in [People -> Memberships],
         ~boardThere => \A p \in People : member'[p].permission = "none",
         UNCHANGED <<boardThere, seat, invite, link, lastLink, favourites, uses>>
  PROVE  SharingInv'
<1>1. TableTypes' BY DEF SharingInv, TableTypes
<1>2. LinkInv' BY DEF SharingInv, LinkInv
<1>3. TablesConsistent'
  BY DEF SharingInv, TablesConsistent, InvitationsGrantOnce, OnePendingEach, OwnerStays,
         DeletedLeavesNothing, SameKey
<1> QED BY <1>1, <1>2, <1>3 DEF SharingInv

(* Requests that are let through carry what their statement needs. *)
LEMMA BegunKeeps ==
  ASSUME SharingInv, NEW c \in Calls, NEW op \in Ops, Begin(c, op)
  PROVE  SharingInv'
<1>1. call' \in [Calls -> Ops \cup {NoCall}] BY DEF SharingInv, TableTypes, Begin
<1> QED BY <1>1, OnlyCallsChange DEF Begin

LEMMA RequestKeepsTables ==
  ASSUME SharingInv, NEW c \in Calls, NEW p \in People,
         \/ InvitationRequest(c, p) \/ MemberRequest(c, p) \/ LinkRequest(c, p)
         \/ BoardRequest(c, p) \/ WorkspaceRequest(c, p)
  PROVE  SharingInv'
<1>0. \A q \in People : member[q].row \in Nat /\ seat[q].row \in Nat
  BY DEF SharingInv, TableTypes, Memberships, Seats
<1>1. CASE InvitationRequest(c, p)
  <2>1. PICK op \in [type : {"invite"}, scope : {"board"}, email : People, grant : Permissions]
                    \cup [type : {"revoke"}, invite : Invites] : Begin(c, op)
    BY <1>1 DEF InvitationRequest
  <2>2. op \in Ops BY DEF Ops
  <2> QED BY <2>1, <2>2, BegunKeeps
<1>2. CASE MemberRequest(c, p)
  <2>1. PICK q \in People :
          \/ \E g \in Permissions, t \in {"upsert", "change"} :
               Begin(c, [type |-> t, who |-> q, grant |-> g, row |-> member[q].row])
          \/ Begin(c, [type |-> "remove", who |-> q, row |-> member[q].row])
    BY <1>2 DEF MemberRequest
  <2>2. ASSUME NEW g \in Permissions, NEW t \in {"upsert", "change"}
        PROVE  [type |-> t, who |-> q, grant |-> g, row |-> member[q].row] \in Ops
    BY <1>0 DEF Ops
  <2>3. [type |-> "remove", who |-> q, row |-> member[q].row] \in Ops
    BY <1>0 DEF Ops
  <2> QED BY <2>1, <2>2, <2>3, BegunKeeps
<1>3. CASE LinkRequest(c, p)
  <2>1. PICK op \in [type : {"setLink"}, permission : Permissions, enabled : BOOLEAN]
                    \cup [type : {"rotateLink"}, permission : Permissions] : Begin(c, op)
    BY <1>3 DEF LinkRequest
  <2>2. op \in Ops BY DEF Ops
  <2> QED BY <2>1, <2>2, BegunKeeps
<1>4. CASE BoardRequest(c, p)
  <2>1. PICK t \in {"deleteBoard", "favourite", "unfavourite", "leave"} :
          Begin(c, [type |-> t, who |-> p])
    BY <1>4 DEF BoardRequest
  <2>2. [type |-> t, who |-> p] \in Ops BY DEF Ops
  <2> QED BY <2>1, <2>2, BegunKeeps
<1>5. CASE WorkspaceRequest(c, p)
  <2>1. PICK op \in [type : {"invite"}, scope : {"workspace"}, email : People,
                     grant : OfferedRoles]
                    \cup {[type |-> "unseat", who |-> q, row |-> seat[q].row] : q \in People} :
          Begin(c, op)
    BY <1>5 DEF WorkspaceRequest
  <2>2. op \in Ops BY <1>0 DEF Ops
  <2> QED BY <2>1, <2>2, BegunKeeps
<1> QED BY <1>1, <1>2, <1>3, <1>4, <1>5

LEMMA CallFacts ==
  ASSUME SharingInv, NEW c \in Calls
  PROVE  /\ \A t \in {"invite", "insert"} : Asks(c, t) =>
              call[c] \in [type : {"invite", "insert"}, scope : {"board"}, email : People,
                           grant : Permissions]
                          \cup [type : {"invite", "insert"}, scope : {"workspace"},
                                email : People, grant : OfferedRoles]
         /\ Asks(c, "revoke") => call[c].invite \in Invites
         /\ \A t \in {"upsert", "change"} : Asks(c, t) =>
              call[c].who \in People /\ call[c].grant \in Permissions
         /\ \A t \in {"remove", "unseat", "deleteBoard", "favourite", "unfavourite", "leave"} :
              Asks(c, t) => call[c].who \in People
         /\ Asks(c, "setLink") => call[c].permission \in Permissions /\ call[c].enabled \in BOOLEAN
         /\ Asks(c, "rotateLink") => call[c].permission \in Permissions
<1>1. call[c] \in Ops \cup {NoCall} BY DEF SharingInv, TableTypes
<1> QED BY <1>1 DEF Ops, Asks

LEMMA RowTypes ==
  ASSUME SharingInv, NEW p \in People
  PROVE  /\ \A g \in Permissions : MemberRow(p, g) \in Memberships
         /\ \A g \in Roles : SeatRow(p, g) \in Seats
<1>1. member[p] \in Memberships /\ seat[p] \in Seats BY DEF SharingInv, TableTypes
<1> QED BY <1>1 DEF Memberships, Seats, MemberRow, SeatRow

-----------------------------------------------------------------------------
(* The statements *)

LEMMA MemberStatements ==
  ASSUME SharingInv, NEW c \in Calls,
         \/ upsertBoardMember(c) \/ updateBoardMemberPermission(c) \/ deleteBoardMember(c)
         \/ leaveBoard(c)
  PROVE  SharingInv'
<1>0. member \in [People -> Memberships]
      /\ (~boardThere => \A p \in People : member[p].permission = "none")
  BY DEF SharingInv, TableTypes, TablesConsistent, DeletedLeavesNothing
<1>1. call' \in [Calls -> Ops \cup {NoCall}]
  BY ReplyTypes DEF SharingInv, upsertBoardMember, updateBoardMemberPermission,
                    deleteBoardMember, leaveBoard
<1>2. UNCHANGED <<boardThere, seat, invite, link, lastLink, favourites, uses>>
  BY DEF upsertBoardMember, updateBoardMemberPermission, deleteBoardMember, leaveBoard
<1>3. CASE upsertBoardMember(c)
  <2>1. call[c].who \in People /\ call[c].grant \in Permissions
    BY <1>3, CallFacts DEF upsertBoardMember
  <2>2. MemberRow(call[c].who, call[c].grant) \in Memberships BY <2>1, RowTypes
  <2>3. member' \in [People -> Memberships] /\ (~boardThere => member' = member)
    BY <1>0, <1>3, <2>2 DEF upsertBoardMember
  <2> QED BY <1>0, <1>1, <1>2, <2>3, OnlyMembersChange
<1>4. CASE updateBoardMemberPermission(c)
  <2>1. call[c].who \in People /\ call[c].grant \in Permissions
    BY <1>4, CallFacts DEF updateBoardMemberPermission
  <2>2. member' \in [People -> Memberships]
    BY <1>0, <1>4, <2>1 DEF updateBoardMemberPermission, Memberships
  <2>3. ~boardThere => member' = member
    BY <1>0, <1>4, <2>1 DEF updateBoardMemberPermission, Aimed
  <2> QED BY <1>0, <1>1, <1>2, <2>2, <2>3, OnlyMembersChange
<1>5. CASE deleteBoardMember(c) \/ leaveBoard(c)
  <2>1. call[c].who \in People BY <1>5, CallFacts DEF deleteBoardMember, leaveBoard
  <2>2. \/ member' = member
        \/ member' = [member EXCEPT ![call[c].who].permission = "none"]
    BY <1>5 DEF deleteBoardMember, leaveBoard
  <2>3. member' \in [People -> Memberships] BY <1>0, <2>1, <2>2 DEF Memberships
  <2>4. ~boardThere => \A p \in People : member'[p].permission = "none"
    BY <1>0, <2>1, <2>2 DEF Memberships
  <2> QED BY <1>1, <1>2, <2>3, <2>4, OnlyMembersChange
<1> QED BY <1>3, <1>4, <1>5

LEMMA SeatStatements ==
  ASSUME SharingInv, NEW c \in Calls, deleteWorkspaceMember(c)
  PROVE  SharingInv'
<1>1. call' \in [Calls -> Ops \cup {NoCall}] /\ call[c].who \in People
  BY ReplyTypes, CallFacts DEF SharingInv, deleteWorkspaceMember
<1>2. UNCHANGED <<boardThere, member, invite, link, lastLink, favourites, uses>>
  BY DEF deleteWorkspaceMember
<1>3. seat \in [People -> Seats] /\ seat[Owner].role = "owner"
  BY DEF SharingInv, TableTypes, TablesConsistent, OwnerStays
<1>4. seat' \in [People -> Seats] BY <1>1, <1>3 DEF deleteWorkspaceMember, Seats
<1>5. seat'[Owner].role = "owner"
  BY <1>1, <1>3, SharingConstants DEF deleteWorkspaceMember
<1>6. TableTypes' BY <1>1, <1>2, <1>4 DEF SharingInv, TableTypes
<1>7. LinkInv' BY <1>2 DEF SharingInv, LinkInv
<1>8. TablesConsistent'
  BY <1>2, <1>5 DEF SharingInv, TablesConsistent, InvitationsGrantOnce, OnePendingEach,
                    OwnerStays, DeletedLeavesNothing, SameKey
<1> QED BY <1>6, <1>7, <1>8 DEF SharingInv

LEMMA FavouriteStatements ==
  ASSUME SharingInv, NEW c \in Calls, setBoardFavorite(c)
  PROVE  SharingInv'
<1>1. call' \in [Calls -> Ops \cup {NoCall}] /\ call[c].who \in People
  BY ReplyTypes, CallFacts DEF SharingInv, setBoardFavorite
<1>2. UNCHANGED <<boardThere, seat, member, invite, link, lastLink, uses>>
  BY DEF setBoardFavorite
<1>3. ~boardThere => checkBoardAccess(call[c].who, 0) = "none" BY DEF checkBoardAccess
<1>4. favourites' \subseteq People /\ (~boardThere => favourites' = favourites)
  BY <1>1, <1>3 DEF SharingInv, TableTypes, setBoardFavorite
<1>5. TableTypes' BY <1>1, <1>2, <1>4 DEF SharingInv, TableTypes
<1>6. LinkInv' BY <1>2 DEF SharingInv, LinkInv
<1>7. TablesConsistent'
  BY <1>2, <1>4 DEF SharingInv, TablesConsistent, InvitationsGrantOnce, OnePendingEach,
                    OwnerStays, DeletedLeavesNothing, SameKey
<1> QED BY <1>5, <1>6, <1>7 DEF SharingInv

LEMMA LinkStatements ==
  ASSUME SharingInv, NEW c \in Calls, setBoardLinkShare(c) \/ rotateBoardLinkShareToken(c)
  PROVE  SharingInv'
<1> DEFINE k == call[c].permission
<1>0. /\ link \in [Permissions -> [enabled : BOOLEAN, token : Nat]] /\ lastLink \in Nat
      /\ LinkInv
  BY DEF SharingInv, TableTypes
<1>1. call' \in [Calls -> Ops \cup {NoCall}] /\ k \in Permissions
  BY ReplyTypes, CallFacts DEF SharingInv, setBoardLinkShare, rotateBoardLinkShareToken
<1>2. UNCHANGED <<boardThere, seat, member, invite, favourites, uses>> /\ lastLink' = lastLink + 1
  BY DEF setBoardLinkShare, rotateBoardLinkShareToken
<1>3. \/ link' = link
      \/ /\ link' \in [Permissions -> [enabled : BOOLEAN, token : Nat]]
         /\ \A j \in Permissions : j # k => link'[j] = link[j]
         /\ link'[k].token \in {0, lastLink + 1}
         /\ link'[k].enabled => link'[k].token = lastLink + 1
  <2>1. CASE setBoardLinkShare(c)
    <3>1. call[c].enabled \in BOOLEAN BY <2>1, CallFacts DEF setBoardLinkShare
    <3> QED BY <1>0, <1>1, <2>1, <3>1 DEF setBoardLinkShare
  <2>2. CASE rotateBoardLinkShareToken(c)
    BY <1>0, <1>1, <2>2 DEF rotateBoardLinkShareToken
  <2> QED BY <2>1, <2>2
<1> HIDE DEF k
<1>4. TableTypes' BY <1>0, <1>1, <1>2, <1>3 DEF SharingInv, TableTypes
<1>5. LinkInv'
  <2>1. CASE link' = link BY <1>0, <1>2, <2>1 DEF LinkInv
  <2>2. CASE link' # link
    <3>1. \A j \in Permissions : link[j].token \in Nat /\ link[j].token <= lastLink
      BY <1>0 DEF LinkInv
    <3>2. \A j \in Permissions : link'[j].token <= lastLink'
      BY <1>0, <1>2, <1>3, <2>2, <3>1
    <3>3. \A j \in Permissions : link'[j].enabled => link'[j].token # 0
      BY <1>0, <1>3, <2>2 DEF LinkInv
    <3>4. link'["view"].token = link'["edit"].token => link'["view"].token = 0
      BY <1>0, <1>1, <1>3, <2>2, <3>1 DEF Permissions
    <3> QED BY <3>2, <3>3, <3>4 DEF LinkInv
  <2> QED BY <2>1, <2>2
<1>6. TablesConsistent'
  BY <1>2 DEF SharingInv, TablesConsistent, InvitationsGrantOnce, OnePendingEach, OwnerStays,
              DeletedLeavesNothing, SameKey
<1> QED BY <1>4, <1>5, <1>6 DEF SharingInv

(* An invitation takes another status; the rest of its row stays.          *)
InviteMoves(i, st) == invite' = [invite EXCEPT ![i].status = st]

LEMMA InviteMoved ==
  ASSUME SharingInv, NEW i \in Invites, NEW st \in Statuses \ {"none", "pending"},
         InviteMoves(i, st)
  PROVE  /\ invite' \in [Invites -> Invitations]
         /\ invite'[i].status = st
         /\ \A j \in Invites : invite'[j].scope = invite[j].scope
                                 /\ invite'[j].email = invite[j].email
         /\ \A j \in Invites : j # i => invite'[j] = invite[j]
         /\ OnePendingEach'
<1>1. invite \in [Invites -> Invitations] /\ invite[i] \in Invitations
  BY DEF SharingInv, TableTypes
<1>2. [invite[i] EXCEPT !.status = st] \in Invitations BY <1>1 DEF Invitations
<1>3. invite' = [invite EXCEPT ![i] = [invite[i] EXCEPT !.status = st]]
  BY DEF InviteMoves
<1>4. invite' \in [Invites -> Invitations] BY <1>1, <1>2, <1>3
<1>5. /\ invite'[i].status = st
      /\ invite'[i].scope = invite[i].scope /\ invite'[i].email = invite[i].email
  BY <1>1, <1>3 DEF Invitations
<1>6. \A j \in Invites : j # i => invite'[j] = invite[j] BY <1>1, <1>3
<1>7. OnePendingEach'
  BY <1>5, <1>6 DEF SharingInv, TablesConsistent, OnePendingEach, SameKey
<1> QED BY <1>4, <1>5, <1>6, <1>7

(* revokeBoardInvitation and declinePendingInvitationByToken: a pending    *)
(* invitation is closed without letting anybody in.                        *)
LEMMA InviteCloses ==
  ASSUME SharingInv, NEW i \in Invites, NEW st \in {"revoked", "declined"},
         InviteMoves(i, st), invite[i].status = "pending",
         call' \in [Calls -> Ops \cup {NoCall}],
         UNCHANGED <<boardThere, seat, member, link, lastLink, favourites, uses>>
  PROVE  SharingInv'
<1>1. st \in Statuses \ {"none", "pending"} BY DEF Statuses
<1>2. /\ invite' \in [Invites -> Invitations] /\ invite'[i].status = st
      /\ \A j \in Invites : invite'[j].scope = invite[j].scope
      /\ \A j \in Invites : j # i => invite'[j] = invite[j]
      /\ OnePendingEach'
  BY <1>1, InviteMoved
<1>3. TableTypes' BY <1>2 DEF SharingInv, TableTypes
<1>4. LinkInv' BY DEF SharingInv, LinkInv
<1>5. InvitationsGrantOnce'
  BY <1>2 DEF SharingInv, TablesConsistent, InvitationsGrantOnce
<1>6. DeletedLeavesNothing' /\ OwnerStays'
  BY <1>2 DEF SharingInv, TablesConsistent, DeletedLeavesNothing, OwnerStays
<1> QED BY <1>2, <1>3, <1>4, <1>5, <1>6 DEF SharingInv, TablesConsistent

LEMMA InviteStatements ==
  ASSUME SharingInv, NEW c \in Calls,
         FindPending(c) \/ InsertRefused(c) \/ revokeBoardInvitation(c)
  PROVE  SharingInv'
<1>1. CASE FindPending(c)
  <2> DEFINE r == [call[c] EXCEPT !.type = "insert"]
  <2>1. call \in [Calls -> Ops \cup {NoCall}] BY DEF SharingInv, TableTypes
  <2>2. r \in Ops
    <3>1. Asks(c, "invite") BY <1>1 DEF FindPending
    <3>2. call[c] \in [type : {"invite", "insert"}, scope : {"board"}, email : People,
                       grant : Permissions]
                      \cup [type : {"invite", "insert"}, scope : {"workspace"},
                            email : People, grant : OfferedRoles]
      BY <3>1, CallFacts
    <3> QED BY <3>2 DEF Ops
  <2>3. Reply(c) \/ call' = [call EXCEPT ![c] = r] BY <1>1 DEF FindPending
  <2> HIDE DEF r
  <2>4. call' \in [Calls -> Ops \cup {NoCall}]
    BY <2>1, <2>2, <2>3, ReplyTypes DEF SharingInv
  <2> QED BY <1>1, <2>4, OnlyCallsChange DEF FindPending
<1>2. CASE InsertRefused(c)
  <2>1. call' \in [Calls -> Ops \cup {NoCall}]
    BY <1>2, ReplyTypes DEF InsertRefused, SharingInv
  <2> QED BY <1>2, <2>1, OnlyCallsChange DEF InsertRefused
<1>3. CASE revokeBoardInvitation(c)
  <2> DEFINE i == call[c].invite
  <2>1. call' \in [Calls -> Ops \cup {NoCall}]
    BY <1>3, ReplyTypes DEF revokeBoardInvitation, SharingInv
  <2>2. i \in Invites BY <1>3, CallFacts DEF revokeBoardInvitation
  <2>3. UNCHANGED <<boardThere, seat, member, link, lastLink, favourites, uses>>
    BY <1>3 DEF revokeBoardInvitation
  <2>4. \/ invite' = invite
        \/ invite[i].status = "pending" /\ InviteMoves(i, "revoked")
    BY <1>3 DEF revokeBoardInvitation, InviteMoves
  <2> HIDE DEF i
  <2>5. CASE invite' = invite BY <2>1, <2>3, <2>5, OnlyCallsChange
  <2>6. CASE invite[i].status = "pending" /\ InviteMoves(i, "revoked")
    BY <2>1, <2>2, <2>3, <2>6, InviteCloses
  <2> QED BY <2>4, <2>5, <2>6
<1> QED BY <1>1, <1>2, <1>3

LEMMA InsertStatement ==
  ASSUME SharingInv, NEW c \in Calls, NEW i \in Invites, InsertInvitation(c, i)
  PROVE  SharingInv'
<1> DEFINE row == [scope |-> call[c].scope, email |-> call[c].email,
                   grant |-> call[c].grant, status |-> "pending", expired |-> FALSE]
<1>1. call' \in [Calls -> Ops \cup {NoCall}]
  BY ReplyTypes DEF SharingInv, InsertInvitation
<1>2. call[c] \in [type : {"invite", "insert"}, scope : {"board"}, email : People,
                   grant : Permissions]
                  \cup [type : {"invite", "insert"}, scope : {"workspace"},
                        email : People, grant : OfferedRoles]
  BY CallFacts DEF InsertInvitation
<1>3. row \in Invitations BY <1>2 DEF Invitations, Statuses
<1>4. /\ invite \in [Invites -> Invitations]
      /\ invite' = [invite EXCEPT ![i] = row]
      /\ UNCHANGED <<boardThere, seat, member, link, lastLink, favourites, uses>>
      /\ invite[i].status = "none" /\ PendingFor(call[c]) = {}
      /\ call[c].scope = "board" => boardThere
  BY DEF SharingInv, TableTypes, InsertInvitation
<1>5. /\ row.status = "pending" /\ row.scope = call[c].scope /\ row.email = call[c].email
      /\ call[c].scope \in {"board", "workspace"}
  BY <1>2
<1> HIDE DEF row
<1>6. invite' \in [Invites -> Invitations] /\ invite'[i] = row
      /\ \A j \in Invites : j # i => invite'[j] = invite[j]
  BY <1>3, <1>4
<1>7. \A j \in Invites : ~(invite[j].status = "pending" /\ invite[j].scope = call[c].scope
                           /\ invite[j].email = call[c].email)
  BY <1>4 DEF PendingFor, SameKey
<1>8. TableTypes' BY <1>1, <1>4, <1>6 DEF SharingInv, TableTypes
<1>9. LinkInv' BY <1>4 DEF SharingInv, LinkInv
<1>10. OnePendingEach'
  BY <1>5, <1>6, <1>7 DEF SharingInv, TablesConsistent, OnePendingEach, SameKey
<1>11. InvitationsGrantOnce'
  BY <1>4, <1>5, <1>6 DEF SharingInv, TablesConsistent, InvitationsGrantOnce
<1>12. DeletedLeavesNothing' /\ OwnerStays'
  BY <1>4, <1>5, <1>6 DEF SharingInv, TablesConsistent, DeletedLeavesNothing, OwnerStays
<1> QED BY <1>8, <1>9, <1>10, <1>11, <1>12 DEF SharingInv, TablesConsistent

(* Somebody is let in, by an invitation that was pending. *)
LEMMA AcceptKeeps ==
  ASSUME SharingInv, NEW i \in Invites, InviteMoves(i, "accepted"),
         invite[i].status = "pending", uses' = [uses EXCEPT ![i] = @ + 1],
         member' \in [People -> Memberships], seat' \in [People -> Seats],
         invite[i].scope = "workspace" => member' = member,
         seat'[Owner].role = "owner",
         UNCHANGED <<boardThere, link, lastLink, favourites, call>>
  PROVE  SharingInv'
<1>1. "accepted" \in Statuses \ {"none", "pending"} BY DEF Statuses
<1>2. /\ invite' \in [Invites -> Invitations] /\ invite'[i].status = "accepted"
      /\ \A j \in Invites : invite'[j].scope = invite[j].scope
      /\ \A j \in Invites : j # i => invite'[j] = invite[j]
      /\ OnePendingEach'
  BY <1>1, InviteMoved
<1>3. uses \in [Invites -> Nat] /\ uses[i] = 0
  BY DEF SharingInv, TableTypes, TablesConsistent, InvitationsGrantOnce
<1>4. uses' \in [Invites -> Nat] /\ uses'[i] = 1 /\ \A j \in Invites : j # i => uses'[j] = uses[j]
  BY <1>3
<1>5. TableTypes' BY <1>2, <1>4 DEF SharingInv, TableTypes
<1>6. LinkInv' BY DEF SharingInv, LinkInv
<1>7. InvitationsGrantOnce'
  BY <1>2, <1>4 DEF SharingInv, TablesConsistent, InvitationsGrantOnce
<1>8. ~boardThere => invite[i].scope = "workspace"
  BY DEF SharingInv, TablesConsistent, DeletedLeavesNothing
<1>9. DeletedLeavesNothing'
  BY <1>2, <1>8 DEF SharingInv, TablesConsistent, DeletedLeavesNothing
<1> QED BY <1>2, <1>5, <1>6, <1>7, <1>9 DEF SharingInv, TablesConsistent, OwnerStays

LEMMA InvitationSteps ==
  ASSUME SharingInv, NEW i \in Invites,
         \/ acceptBoardInvitationByToken(i) \/ acceptInvitation(i)
         \/ declinePendingInvitationByToken(i) \/ InvitationExpires(i)
  PROVE  SharingInv'
<1>0. /\ call \in [Calls -> Ops \cup {NoCall}] /\ invite \in [Invites -> Invitations]
      /\ member \in [People -> Memberships] /\ seat \in [People -> Seats]
      /\ seat[Owner].role = "owner"
  BY DEF SharingInv, TableTypes, TablesConsistent, OwnerStays
<1>a. invite[i] \in Invitations BY <1>0
<1>1. CASE acceptBoardInvitationByToken(i)
  <2>1. invite[i].email \in People /\ invite[i].grant \in Permissions
    BY <1>1, <1>a DEF acceptBoardInvitationByToken, Invitations
  <2>2. MemberRow(invite[i].email, invite[i].grant) \in Memberships BY <2>1, RowTypes
  <2>3. member' \in [People -> Memberships]
    BY <1>0, <1>1, <2>2 DEF acceptBoardInvitationByToken
  <2> QED BY <1>0, <1>1, <2>3, AcceptKeeps DEF acceptBoardInvitationByToken, InviteMoves
<1>2. CASE acceptInvitation(i)
  <2>1. invite[i].email \in People /\ invite[i].grant \in Roles
    BY <1>2, <1>a, SharingConstants DEF acceptInvitation, Invitations, Roles
  <2>2. SeatRow(invite[i].email, invite[i].grant) \in Seats BY <2>1, RowTypes
  <2>3. seat' \in [People -> Seats] BY <1>0, <1>2, <2>2 DEF acceptInvitation
  <2>4. seat'[Owner].role = "owner"
    BY <1>0, <1>2, SharingConstants DEF acceptInvitation
  <2> QED BY <1>0, <1>2, <2>3, <2>4, AcceptKeeps DEF acceptInvitation, InviteMoves
<1>3. CASE declinePendingInvitationByToken(i)
  <2>1. \E st \in {"revoked", "declined"} : InviteMoves(i, st)
    BY <1>3 DEF declinePendingInvitationByToken, InviteMoves
  <2>2. call' \in [Calls -> Ops \cup {NoCall}]
    BY <1>0, <1>3 DEF declinePendingInvitationByToken
  <2> QED BY <1>3, <2>1, <2>2, InviteCloses DEF declinePendingInvitationByToken
<1>4. CASE InvitationExpires(i)
  <2>1. [invite[i] EXCEPT !.expired = TRUE] \in Invitations BY <1>a DEF Invitations
  <2>2. invite' = [invite EXCEPT ![i] = [invite[i] EXCEPT !.expired = TRUE]]
    BY <1>4 DEF InvitationExpires
  <2>3. invite' \in [Invites -> Invitations] BY <1>0, <2>1, <2>2
  <2>4. \A j \in Invites : /\ invite'[j].scope = invite[j].scope
                           /\ invite'[j].email = invite[j].email
                           /\ invite'[j].status = invite[j].status
    BY <1>0, <1>a, <2>2 DEF Invitations
  <2>5. UNCHANGED <<boardThere, seat, member, link, lastLink, favourites, call, uses>>
    BY <1>4 DEF InvitationExpires
  <2>6. TableTypes' /\ LinkInv' BY <2>3, <2>5 DEF SharingInv, TableTypes, LinkInv
  <2>7. TablesConsistent'
    BY <2>4, <2>5 DEF SharingInv, TablesConsistent, InvitationsGrantOnce, OnePendingEach,
                      OwnerStays, DeletedLeavesNothing, SameKey
  <2> QED BY <2>6, <2>7 DEF SharingInv
<1> QED BY <1>1, <1>2, <1>3, <1>4

LEMMA DeleteStatement ==
  ASSUME SharingInv, NEW c \in Calls, deleteBoard(c)
  PROVE  SharingInv'
<1>0. TableTypes BY DEF SharingInv
<1>1. call' \in [Calls -> Ops \cup {NoCall}] BY <1>0, ReplyTypes DEF deleteBoard
<1>2. /\ boardThere' = FALSE /\ favourites' = {}
      /\ link' = [k \in Permissions |-> [enabled |-> FALSE, token |-> 0]]
      /\ UNCHANGED <<seat, lastLink, uses>>
  BY DEF deleteBoard
<1>3. member' \in [People -> Memberships] /\ \A p \in People : member'[p].permission = "none"
  BY <1>0 DEF deleteBoard, TableTypes, Memberships
<1>4. ASSUME NEW i \in Invites
      PROVE  /\ invite'[i] \in Invitations
             /\ invite'[i].scope = invite[i].scope /\ invite'[i].email = invite[i].email
             /\ invite'[i].status \in {invite[i].status, "gone"}
             /\ invite'[i].scope = "workspace" \/ invite'[i].status \in {"none", "gone"}
  <2>1. invite[i] \in Invitations BY <1>0 DEF TableTypes
  <2>2. [invite[i] EXCEPT !.status = "gone"] \in Invitations BY <2>1 DEF Invitations, Statuses
  <2>3. invite'[i] = IF invite[i].scope = "board" /\ invite[i].status # "none"
                     THEN [invite[i] EXCEPT !.status = "gone"] ELSE invite[i]
    BY DEF deleteBoard
  <2> QED BY <2>1, <2>2, <2>3 DEF Invitations
<1>5. invite' \in [Invites -> Invitations] BY <1>4 DEF deleteBoard
<1>6. TableTypes' BY <1>0, <1>1, <1>2, <1>3, <1>5 DEF TableTypes
<1>7. LinkInv' BY <1>0, <1>2 DEF LinkInv, Permissions, TableTypes
<1>8. TablesConsistent'
  BY <1>2, <1>3, <1>4 DEF SharingInv, TablesConsistent, InvitationsGrantOnce, OnePendingEach,
                          OwnerStays, DeletedLeavesNothing, SameKey
<1> QED BY <1>6, <1>7, <1>8 DEF SharingInv

LEMMA SharingStep == SharingInv /\ [SharingNext]_sharingVars => SharingInv'
<1> SUFFICES ASSUME SharingInv, [SharingNext]_sharingVars PROVE SharingInv' OBVIOUS
<1>1. CASE UNCHANGED sharingVars
  <2>1. call' \in [Calls -> Ops \cup {NoCall}]
    BY <1>1 DEF sharingVars, SharingInv, TableTypes
  <2> QED BY <1>1, <2>1, OnlyCallsChange DEF sharingVars
<1>2. ASSUME NEW c \in Calls, Acts(c) PROVE SharingInv'
  BY <1>2, InviteStatements, InsertStatement, MemberStatements, SeatStatements,
     FavouriteStatements, LinkStatements, DeleteStatement
  DEF Acts
<1> QED BY <1>1, <1>2, RequestKeepsTables, InvitationSteps DEF SharingNext

(* With any number of people, invitations and requests between their check *)
(* and their statement: an invitation lets somebody in once and never after *)
(* it was closed, an address has one pending invitation, the workspace      *)
(* keeps its owner, and nothing is left of a deleted board.                 *)
THEOREM SharingTablesStay == SharingSpec => []TablesConsistent
<1>1. SharingInv => TablesConsistent BY DEF SharingInv
<1> QED BY <1>1, SharingInvInit, SharingStep, PTL DEF SharingSpec

(* A link token never opens more than it did, in particular not the board   *)
(* of the other permission: setBoardLinkShare and rotateBoardLinkShareToken *)
(* only hand out tokens that are new.                                       *)
THEOREM LinksNeverRise == SharingSpec => LinkNeverRises
<1> DEFINE Keeps == \A t \in 1..lastLink : getShareByToken(t)' \in {"none", getShareByToken(t)}
<1>1. ASSUME SharingInv, [SharingNext]_sharingVars PROVE [Keeps]_sharingVars
  <2>0. /\ link \in [Permissions -> [enabled : BOOLEAN, token : Nat]] /\ lastLink \in Nat
        /\ LinkInv /\ {"view", "edit"} \subseteq Permissions
    BY <1>1 DEF SharingInv, TableTypes, Permissions
  <2>1. CASE UNCHANGED link BY <2>1 DEF getShareByToken
  <2>2. ASSUME NEW c \in Calls, deleteBoard(c) PROVE Keeps
    BY <2>0, <2>2 DEF deleteBoard, getShareByToken
  <2>3. ASSUME NEW c \in Calls, setBoardLinkShare(c) \/ rotateBoardLinkShareToken(c)
        PROVE  Keeps
    <3> DEFINE k == call[c].permission
    <3>1. k \in Permissions
      BY <1>1, <2>3, CallFacts DEF setBoardLinkShare, rotateBoardLinkShareToken
    <3>2. \/ link' = link
          \/ /\ \A j \in Permissions : j # k => link'[j] = link[j]
             /\ link'[k].token \in {0, lastLink + 1}
      BY <2>0, <2>3, <3>1 DEF setBoardLinkShare, rotateBoardLinkShareToken
    <3> HIDE DEF k
    <3>3. ASSUME NEW t \in 1..lastLink, link' # link
          PROVE  getShareByToken(t)' \in {"none", getShareByToken(t)}
      <4>1. t # 0 /\ t # lastLink + 1 BY <2>0
      <4>2. link'[k].token # t BY <3>2, <3>3, <4>1
      <4>3. k = "view" \/ k = "edit" BY <3>1 DEF Permissions
      <4>4. CASE k = "view"
        <5>1. link'["edit"] = link["edit"] BY <2>0, <3>2, <3>3, <4>4
        <5>2. link["edit"].token = t => link["view"].token # t BY <2>0, <4>1 DEF LinkInv
        <5> QED BY <4>2, <4>4, <5>1, <5>2 DEF getShareByToken
      <4>5. CASE k = "edit"
        <5>1. link'["view"] = link["view"] BY <2>0, <3>2, <3>3, <4>5
        <5> QED BY <4>2, <4>5, <5>1 DEF getShareByToken
      <4> QED BY <4>3, <4>4, <4>5
    <3>4. CASE link' = link BY <3>4 DEF getShareByToken
    <3> QED BY <3>3, <3>4
  <2>4. SharingNext => \/ UNCHANGED link
                       \/ \E c \in Calls : deleteBoard(c) \/ setBoardLinkShare(c)
                                           \/ rotateBoardLinkShareToken(c)
    BY DEF SharingNext, Acts, FindPending, InsertRefused, revokeBoardInvitation,
           InsertInvitation, upsertBoardMember, updateBoardMemberPermission,
           deleteBoardMember, leaveBoard, deleteWorkspaceMember, setBoardFavorite,
           InvitationRequest, MemberRequest, LinkRequest, BoardRequest, WorkspaceRequest,
           Begin, acceptBoardInvitationByToken, acceptInvitation,
           declinePendingInvitationByToken, InvitationExpires
  <2> QED BY <1>1, <2>1, <2>2, <2>3, <2>4 DEF sharingVars
<1> QED BY <1>1, SharingInvInit, SharingStep, PTL DEF SharingSpec, LinkNeverRises

=============================================================================
