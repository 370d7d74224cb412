------------------------------ MODULE FrameNames ------------------------------
(***************************************************************************)
(* The name grammars of validate.rs, as the code decides them: a method     *)
(* name or topic is cut at its dots and each segment is walked once.  A     *)
(* character is one of six kinds.                                           *)
(***************************************************************************)
EXTENDS Naturals, Sequences, SequencesExt

CONSTANTS
    MaxName,    \* MAX_NAME_CHARS
    MaxCode     \* MAX_CODE_CHARS

ASSUME NamesAssumption == MaxName \in Nat \ {0} /\ MaxCode \in Nat \ {0}

(* A lowercase and an uppercase letter, a digit, and the three marks.        *)
Characters == {"a", "A", "0", "-", "_", "."}

VARIABLE name    \* the string under test, one character longer each step

NamesInit == name = <<>>

NamesNext ==
    /\ Len(name) <= MaxName
    /\ \E c \in Characters : name' = Append(name, c)

-----------------------------------------------------------------------------
(* str::split('.'): one segment more than there are dots.                    *)
Split(n) ==
    FoldLeft(LAMBDA segments, c :
               IF c = "." THEN Append(segments, <<>>)
                          ELSE [segments EXCEPT ![Len(segments)] = Append(@, c)],
             << <<>> >>, n)

MutTrailingDash(segment) ==
    segment # <<>> /\ Head(segment) = "a" /\ ToSet(segment) \subseteq {"a", "0", "-"}

is_valid_segment(segment) ==
    /\ segment # <<>>
    /\ Head(segment) = "a"
    /\ Last(segment) # "-"
    /\ ToSet(segment) \subseteq {"a", "0", "-"}

is_valid_method_name(n) ==
    /\ Len(n) <= MaxName
    /\ \A i \in DOMAIN Split(n) : is_valid_segment(Split(n)[i])
    /\ Len(Split(n)) >= 2

is_valid_role(n) == Len(n) \in 1 .. MaxCode /\ is_valid_segment(n)

is_valid_error_code(n) ==
    /\ Len(n) \in 1 .. MaxCode
    /\ Head(n) = "A"
    /\ ToSet(Tail(n)) \subseteq {"A", "0", "_"}

-----------------------------------------------------------------------------
(* METHOD_NAME_PATTERN read position by position: a name starts each segment *)
(* with a letter and ends it with a letter or a digit, and has a dot.        *)
MatchesPattern(n) ==
    /\ ToSet(n) \subseteq {"a", "0", "-", "."} /\ "." \in ToSet(n)
    /\ \A i \in DOMAIN n :
         /\ i = 1 \/ n[i - 1] = "." => n[i] = "a"
         /\ i = Len(n) \/ n[i + 1] = "." => n[i] \in {"a", "0"}

(* ^[a-z][a-z0-9-]*$ and ^[A-Z][A-Z0-9_]*$                                   *)
MatchesLabel(n) == n # <<>> /\ n[1] = "a" /\ \A i \in DOMAIN n : n[i] \in {"a", "0", "-"}
MatchesCode(n) == n # <<>> /\ n[1] = "A" /\ \A i \in DOMAIN n : n[i] \in {"A", "0", "_"}

(* is_valid_method_name, is_valid_error_code: the walk over the segments     *)
(* agrees with the published patterns exactly.  is_valid_role accepts only   *)
(* labels of the published pattern, and the ones it refuses against          *)
(* RolesFollowPattern are those that end in a dash, no others.               *)
NamesFollowPattern ==
    /\ is_valid_method_name(name) <=> MatchesPattern(name) /\ Len(name) <= MaxName
    /\ is_valid_error_code(name) <=> MatchesCode(name) /\ Len(name) <= MaxCode
    /\ is_valid_role(name) <=> MatchesLabel(name) /\ Last(name) # "-" /\ Len(name) <= MaxCode

(* "True when the role matches `^[a-z][a-z0-9-]*$` and fits                  *)
(* [`MAX_CODE_CHARS`]" (validate.rs:196); section 5 of the specification and *)
(* its schema state the same pattern, which ends in a dash as it pleases.    *)
(* The code shares is_valid_segment with the method names, and refuses one.  *)
RolesFollowPattern ==
    is_valid_role(name) <=> MatchesLabel(name) /\ Len(name) <= MaxCode
=============================================================================
