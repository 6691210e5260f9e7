--------------------------- MODULE ShareDirectory ---------------------------
(***************************************************************************)
(* What sharing promises, with no file, no process and no intermediate     *)
(* step: a directory of shares, the password each protected destination    *)
(* accepts, and the API tokens.  Every operation is one step.              *)
(***************************************************************************)
EXTENDS Integers

CONSTANTS Scopes, Hosts, Tokens

VARIABLES
  routed,    \* the shares that are reachable
  accepted,  \* accepted[s]: the password scope s accepts, 0 when it has none
  waived,    \* what an operator took the password of, and did not give another
  tokens,    \* tokens[t]: "none", "active" or "revoked"
  clock

dvars == <<routed, accepted, waived, tokens, clock>>

RoutedIds(list) == {s.id : s \in list}

DInit ==
  /\ routed = {}
  /\ accepted = [s \in Scopes |-> 0]
  /\ waived = {}
  /\ tokens = [t \in Tokens |-> "none"]
  /\ clock = 0

Expired(list) == {s \in list : s.expiresAt <= clock}

\* A share appears, with its password when it is protected (unless that was
\* waived before it could appear), and whatever had expired leaves at the same
\* time.  No container is shared twice.
Publish ==
  /\ \E s \in routed' \ routed :
       /\ s.id \notin RoutedIds(routed)
       /\ \A x \in routed' \ {s} : x \in routed /\ x.container # s.container
       /\ routed \ routed' \subseteq Expired(routed)
       /\ IF s.mode = "protected" THEN accepted'[s.id] # 0 \/ s.id \in waived
                                  ELSE accepted'[s.id] = 0
       /\ \A x \in Scopes \ {s.id} :
            accepted'[x] = IF x \in RoutedIds(routed \ routed') THEN 0 ELSE accepted[x]
  /\ UNCHANGED <<waived, tokens, clock>>

\* The destinations that ask for a password.
Guardable == Hosts \cup {s.id : s \in {x \in routed : x.mode = "protected"}}

\* One destination gets a new password; nothing else changes.
Rotate ==
  /\ \E s \in Guardable :
       /\ accepted'[s] \notin {0, accepted[s]}
       /\ waived' = waived \ {s}
       /\ \A x \in Scopes \ {s} : accepted'[x] = accepted[x]
  /\ UNCHANGED <<routed, tokens, clock>>

\* Shares leave together with their passwords: one that was revoked, or
\* several that have expired.
Remove ==
  /\ routed' \subseteq routed
  /\ routed' # routed
  /\ \/ routed \ routed' \subseteq Expired(routed)
     \/ \E i \in RoutedIds(routed) : routed' = {s \in routed : s.id # i}
  /\ \A x \in Scopes :
       accepted'[x] = IF x \in RoutedIds(routed \ routed') THEN 0 ELSE accepted[x]
  /\ UNCHANGED <<waived, tokens, clock>>

\* An operator takes the password of a destination away, a routed share's too.
Unguard ==
  /\ \E s \in Guardable :
       /\ accepted[s] # 0
       /\ accepted'[s] = 0
       /\ waived' = waived \cup {s}
       /\ \A x \in Scopes \ {s} : accepted'[x] = accepted[x]
  /\ UNCHANGED <<routed, tokens, clock>>

\* What is waived of a destination that asks for no password, or is not there
\* yet, shows when it is there.
Waive ==
  /\ waived' \subseteq Scopes
  /\ \A s \in Guardable : s \in waived' <=> s \in waived
  /\ UNCHANGED <<routed, accepted, tokens, clock>>

Issue ==
  /\ \E t \in Tokens :
       /\ <<tokens[t], tokens'[t]>> \in {<<"none", "active">>, <<"active", "revoked">>}
       /\ \A u \in Tokens \ {t} : tokens'[u] = tokens[u]
  /\ UNCHANGED <<routed, accepted, waived, clock>>

Pass ==
  /\ clock' > clock
  /\ UNCHANGED <<routed, accepted, waived, tokens>>

DNext == Publish \/ Rotate \/ Remove \/ Unguard \/ Waive \/ Issue \/ Pass

DSpec == DInit /\ [][DNext]_dvars
=============================================================================
