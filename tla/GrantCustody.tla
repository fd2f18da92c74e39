----------------------------- MODULE GrantCustody -----------------------------
(***************************************************************************)
(* What the OAuth session promises about each refresh token: the server    *)
(* issues it into somebody's hands, it may come to rest in the one slot of *)
(* the credential store, and from there it can only die (by rotation or    *)
(* revocation).  A token leaves someone's hands for nobody's only by being *)
(* orphaned, and nothing orphaned is ever used again.                      *)
(***************************************************************************)
EXTENDS Naturals

CONSTANTS
  Families,   \* grants
  MaxToken    \* newest generation of a token in a family

VARIABLE grant

Tokens == Families \X (1 .. MaxToken)

(* A token the server honours. *)
Alive(t) == grant[t] \in {"held", "stored", "orphaned"}

CustodyInit == grant = [t \in Tokens |-> "unissued"]

(* A login: the family's first token.  Only one token is in hand at a time.*)
Issue(f, phase) ==
  /\ \A g \in 1 .. MaxToken : grant[<<f, g>>] = "unissued"
  /\ \A t \in Tokens : grant[t] # "held"
  /\ grant' = [grant EXCEPT ![<<f, 1>>] = phase]

(* A rotation: the stored token dies as its successor is issued.           *)
Rotate(f, g, phase) ==
  /\ g + 1 <= MaxToken
  /\ grant[<<f, g>>] = "stored"
  /\ \A t \in Tokens : grant[t] # "held"
  /\ grant' = [grant EXCEPT ![<<f, g>>] = "dead", ![<<f, g + 1>>] = phase]

(* The slot takes the token in hand once nothing alive is in it.           *)
Store(t) ==
  /\ grant[t] = "held"
  /\ \A u \in Tokens : grant[u] # "stored"
  /\ grant' = [grant EXCEPT ![t] = "stored"]

Lose(t) ==
  /\ grant[t] = "held"
  /\ grant' = [grant EXCEPT ![t] = "orphaned"]

Die(t) ==
  /\ Alive(t)
  /\ grant' = [grant EXCEPT ![t] = "dead"]

CustodyNext ==
  \/ \E f \in Families, phase \in {"held", "orphaned"} : Issue(f, phase)
  \/ \E f \in Families, g \in 1 .. MaxToken, phase \in {"held", "orphaned"} :
       Rotate(f, g, phase)
  \/ \E t \in Tokens : Store(t) \/ Lose(t) \/ Die(t)

CustodySpec == CustodyInit /\ [][CustodyNext]_grant
=============================================================================
