-------------------------- MODULE SessionSpec_proofs --------------------------
(***************************************************************************)
(* SessionSpec keeps its promises: what its header says of sessions and    *)
(* tokens holds in every behaviour of it, for every set of sessions, pairs *)
(* and callers, and so of the store that implements it.                    *)
(***************************************************************************)
EXTENDS SessionSpec, TLAPS

TypeOK ==
    /\ opened \subseteq Families
    /\ usable \subseteq [token : Tokens, family : opened]
    /\ granted \subseteq Pairs
    /\ due \in [Callers -> opened \cup {None}]
    /\ presented \in [Callers -> Tokens \cup {None}]
    /\ torn \subseteq opened
    /\ closed \subseteq opened

\* A session that is over has no usable token and no grant due.
ClosedIsOver ==
    /\ \A u \in usable : u.family \notin closed
    /\ \A c \in Callers : due[c] # None => due[c] \notin closed

\* Usable tokens were granted, each in one session.
GrantedInOneSession ==
    /\ \A u \in usable : u.token[1] \in granted
    /\ \A u, v \in usable : u.token = v.token => u = v

Inv == TypeOK /\ ClosedIsOver /\ GrantedInOneSession

\* A token of a granted pair that is not usable.
Lapsed(t) == t[1] \in granted /\ \A u \in usable : u.token # t

-----------------------------------------------------------------------------
\* The step that adds usable tokens adds one or two, of the pair it grants.
LEMMA GrantedTokens ==
    ASSUME Inv, NEW c \in Callers, NEW p \in Pairs, Grant(c, p)
    PROVE  /\ due[c] \in opened /\ due[c] \notin closed
           /\ usable \subseteq usable'
           /\ \A u \in usable' \ usable :
                 /\ u \in [token : Tokens, family : opened]
                 /\ u.token[1] = p /\ u.family = due[c]
<1>1. PICK S \in SUBSET {"access", "refresh"} :
         usable' = usable \cup {[token |-> <<p, type>>, family |-> due[c]] : type \in S}
      BY DEF Grant
<1>2. due[c] \in opened /\ due[c] \notin closed
      BY DEF Grant, Inv, TypeOK, ClosedIsOver
<1>3. \A type \in S : <<p, type>> \in Tokens
      BY DEF Tokens
<1>q. QED BY <1>1, <1>2, <1>3

\* A step that grants nothing keeps usable tokens in their sessions.
LEMMA NothingGranted ==
    ASSUME Inv, usable' \subseteq usable, granted' = granted
    PROVE  GrantedInOneSession'
BY DEF Inv, GrantedInOneSession

LEMMA InvStep == Inv /\ [Next]_vars => Inv'
<1> SUFFICES ASSUME Inv, [Next]_vars PROVE Inv'
    OBVIOUS
<1> USE DEF Inv, TypeOK, ClosedIsOver
<1>1. ASSUME NEW c \in Callers, NEW f \in Families, Open(c, f)
      PROVE  Inv'
      BY <1>1, NothingGranted DEF Open
<1>2. ASSUME NEW c \in Callers, NEW u \in usable, Redeem(c, u)
      PROVE  Inv'
      BY <1>2, NothingGranted DEF Redeem
<1>3. ASSUME NEW c \in Callers, NEW p \in Pairs, Grant(c, p)
      PROVE  Inv'
  <2>1. /\ p \notin granted /\ granted' = granted \cup {p}
        /\ due' = [due EXCEPT ![c] = None] /\ presented' = [presented EXCEPT ![c] = None]
        /\ UNCHANGED <<opened, torn, closed>>
        BY <1>3 DEF Grant
  <2>2. TypeOK'
        BY <1>3, <2>1, GrantedTokens
  <2>3. ClosedIsOver'
        BY <1>3, <2>1, GrantedTokens
  <2>4. \A u \in usable' : u.token[1] \in granted'
        BY <1>3, <2>1, GrantedTokens DEF GrantedInOneSession
  <2>5. ASSUME NEW u \in usable', NEW v \in usable', u.token = v.token
        PROVE  u = v
    <3>1. CASE u \in usable /\ v \in usable
          BY <2>5, <3>1 DEF GrantedInOneSession
    <3>2. CASE u \notin usable /\ v \notin usable
          BY <1>3, <2>5, <3>2, GrantedTokens
    <3>3. CASE ~(u \in usable <=> v \in usable)
          BY <1>3, <2>1, <2>5, <3>3, GrantedTokens DEF GrantedInOneSession
    <3>q. QED BY <3>1, <3>2, <3>3
  <2>q. QED BY <2>2, <2>3, <2>4, <2>5 DEF GrantedInOneSession
<1>4. ASSUME NEW c \in Callers, Abandon(c)
      PROVE  Inv'
      BY <1>4, NothingGranted DEF Abandon
<1>5. CASE Lapse
  <2>1. torn' \ torn \subseteq opened
        BY <1>5 DEF Lapse
  <2>q. QED BY <1>5, <2>1, NothingGranted DEF Lapse
<1>6. ASSUME NEW f \in Families, Revoke(f)
      PROVE  Inv'
  <2>1. usable' \subseteq usable
        BY <1>6 DEF Revoke
  <2>q. QED BY <1>6, <2>1, NothingGranted DEF Revoke
<1>7. ASSUME NEW f \in Families, Close(f)
      PROVE  Inv'
      BY <1>7, NothingGranted DEF Close, Of
<1>8. CASE UNCHANGED vars
      BY <1>8 DEF vars, GrantedInOneSession
<1>q. QED BY <1>1, <1>2, <1>3, <1>4, <1>5, <1>6, <1>7, <1>8 DEF Next

LEMMA Always == Spec => []Inv
<1>1. Init => Inv
      BY DEF Init, Inv, TypeOK, ClosedIsOver, GrantedInOneSession
<1>q. QED BY <1>1, InvStep, PTL DEF Spec

-----------------------------------------------------------------------------
\* A session that is over never has a usable token again, and no call is about
\* to grant one (the last promise of SessionSpec).
THEOREM ClosedIsFinal == Spec => []ClosedIsOver
<1>1. Inv => ClosedIsOver
      BY DEF Inv
<1>q. QED BY <1>1, Always, PTL

\* A token is of one session as long as it is usable, and only granted tokens
\* are: revoking one session cannot end a token of another.
THEOREM OneSessionPerToken == Spec => []GrantedInOneSession
<1>1. Inv => GrantedInOneSession
      BY DEF Inv
<1>q. QED BY <1>1, Always, PTL

\* A token that was granted and is no longer usable never is again.
THEOREM LapsedForGood == Spec => [][\A t \in Tokens : Lapsed(t) => Lapsed(t)']_vars
<1> DEFINE Stays == \A t \in Tokens : Lapsed(t) => Lapsed(t)'
<1>1. ASSUME Inv, [Next]_vars PROVE Stays
  <2> SUFFICES ASSUME NEW t \in Tokens, Lapsed(t) PROVE Lapsed(t)'
      OBVIOUS
  <2>1. ASSUME NEW c \in Callers, NEW p \in Pairs, Grant(c, p)
        PROVE  Lapsed(t)'
    <3>1. p \notin granted /\ granted' = granted \cup {p}
          BY <2>1 DEF Grant
    <3>q. QED BY <1>1, <2>1, <3>1, GrantedTokens DEF Lapsed
  <2>2. granted' = granted /\ usable' \subseteq usable => Lapsed(t)'
        BY DEF Lapsed
  <2>q. QED BY <1>1, <2>1, <2>2 DEF Next, Open, Redeem, Abandon, Lapse, Revoke, Close, Of, vars
<1>q. QED BY <1>1, Always, PTL DEF Spec
=============================================================================
