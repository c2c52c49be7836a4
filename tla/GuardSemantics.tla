---------------------------- MODULE GuardSemantics ----------------------------
(***************************************************************************)
(* actenon_scan/repository/guard_semantics.py and guard_resolution.py:     *)
(* what kind of guard a name stands for, which action it is about, and     *)
(* whether the guard's body raises or returns.                             *)
(*                                                                         *)
(* A name is the sequence of its words: check_permission is <<"check",     *)
(* "permission">>.  A pattern matches whole words, so this loses nothing   *)
(* but digits inside words.                                                *)
(***************************************************************************)
EXTENDS Integers, Sequences

(* The words p in a row, somewhere in the name. *)
Mentions(name, p) ==
    \E i \in 0 .. Len(name) - Len(p) : SubSeq(name, i + 1, i + Len(p)) = p

StartsWith(name, p) == Len(name) > Len(p) /\ SubSeq(name, 1, Len(p)) = p

(* _KIND_PATTERNS: words that may stand anywhere, and prefixes ("can_").   *)
(* Not every pattern of the table: those of each kind that tell the kinds  *)
(* apart.                                                                  *)
KindPatterns == <<
    [kind |-> "CAPABILITY_PROOF", prefixes |-> {},
     words |-> {<<"verify", "pccb">>, <<"check", "capability">>, <<"verify", "proof">>, <<"require", "pcc">>}],
    [kind |-> "AUTHENTICATION", prefixes |-> {},
     words |-> {<<"auth">>, <<"authenticate">>, <<"login", "required">>, <<"require", "login">>, <<"verify", "token">>}],
    [kind |-> "HUMAN_APPROVAL", prefixes |-> {},
     words |-> {<<"require", "human">>, <<"request", "approval">>, <<"human", "approval">>}],
    [kind |-> "AUTHORIZATION", prefixes |-> {<<"can">>, <<"may">>, <<"require">>},
     words |-> {<<"authorize">>, <<"user", "may">>, <<"has", "role">>, <<"check", "permission">>, <<"policy", "gate">>}],
    [kind |-> "VALIDATION", prefixes |-> {}, words |-> {<<"validate">>, <<"check", "input">>, <<"is", "valid">>}],
    [kind |-> "SANITIZATION", prefixes |-> {<<"clean">>}, words |-> {<<"sanitize">>, <<"escape">>}],
    [kind |-> "POLICY_ENFORCEMENT", prefixes |-> {}, words |-> {<<"enforce", "policy">>, <<"casbin">>}],
    [kind |-> "RATE_LIMIT", prefixes |-> {}, words |-> {<<"rate", "limit">>, <<"throttle">>}]>>

(* classify_guard_name: the first kind with a pattern that matches.        *)
GuardKindOf(name) ==
    LET matching == {i \in 1 .. Len(KindPatterns) :
                       \/ \E p \in KindPatterns[i].words : Mentions(name, p)
                       \/ \E p \in KindPatterns[i].prefixes : StartsWith(name, p)}
    IN  IF matching = {} THEN "UNKNOWN_GUARD"
        ELSE KindPatterns[CHOOSE i \in matching : \A j \in matching : i <= j].kind

(* _ACTION_AUTHORIZATION_KINDS *)
AuthorizesActions(kind) == kind \in {"AUTHORIZATION", "POLICY_ENFORCEMENT", "CAPABILITY_PROOF"}

AuthorityPrefixes ==
    {<<"authorize">>, <<"require">>, <<"require", "permission">>, <<"require", "role">>,
     <<"check", "permission">>, <<"has", "role">>, <<"verify", "pccb">>, <<"enforce", "policy">>,
     <<"policy", "gate">>, <<"can">>, <<"may">>}

(* Strip the longest prefix, as often as one matches. *)
Stripped(name) ==
    LET strip[k \in 0 .. Len(name)] ==
          IF k = 0 THEN name
          ELSE LET rest == strip[k - 1]
                   ps == {p \in AuthorityPrefixes : StartsWith(rest, p)}
                   n == CHOOSE m \in {Len(p) : p \in ps} : \A p \in ps : Len(p) <= m
               IN  IF ps = {} THEN rest ELSE SubSeq(rest, n + 1, Len(rest))
    IN  strip[Len(name)]

(* extract_action_label: <<>> for None. *)
ActionLabel(name) ==
    IF AuthorizesActions(GuardKindOf(name)) /\ Stripped(name) # name THEN Stripped(name) ELSE <<>>

SinkVerbs == {"process", "issue", "execute", "send", "create", "delete", "update", "transfer"}

(* infer_sink_action_label: one leading verb is dropped. *)
SinkActionLabel(name) ==
    IF Len(name) > 1 /\ name[1] \in SinkVerbs THEN Tail(name) ELSE name

(* The soundness gate of compare_authority_to_sink: both labels are known  *)
(* and neither contains the other.                                         *)
OtherAction(guard, sink) ==
    LET a == ActionLabel(guard)
        s == SinkActionLabel(sink)
    IN  a # <<>> /\ s # <<>> /\ ~Mentions(a, s) /\ ~Mentions(s, a)

-----------------------------------------------------------------------------
(* A guard's definition as inspect_guard_body sees it: symbol, whether     *)
(* resolve_call_target finds one at all; raises, a raise anywhere in the   *)
(* body; returns, a return at its top level.  asserting: what the name of  *)
(* the call, or of its argument, promises.                                 *)
Definition == [symbol : BOOLEAN, raises : BOOLEAN, returns : BOOLEAN, asserting : BOOLEAN]

(* resolve_guard_call *)
GuardStyle(d) ==
    CASE d.symbol /\ d.raises /\ ~d.returns -> "ASSERT"
      [] d.symbol /\ ~d.raises /\ d.returns -> "PREDICATE"
      [] ~d.symbol /\ d.asserting -> "ASSERT"
      [] OTHER -> "UNKNOWN"
=============================================================================
