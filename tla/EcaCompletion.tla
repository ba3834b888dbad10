--------------------------- MODULE EcaCompletion ---------------------------
(***************************************************************************)
(* Command-name completion of the readline front end                     *)
(* (src/ecasound/eca-text.cpp): ecasound_completion, called by readline   *)
(* on TAB, asks completion_matches to call ecasound_command_generator     *)
(* with state 0 and then with increasing states until it returns NULL;   *)
(* the generator keeps its iterator over the registered command map in   *)
(* static variables between the calls.                                   *)
(*                                                                         *)
(* A word is a sequence of characters over a small alphabet; the command *)
(* map is std::map<std::string,int>, iterated in std::string order.      *)
(***************************************************************************)
EXTENDS Integers, SequencesExt

CONSTANTS
  Registered,  \* names in ECA_IAMODE_PARSER::registered_commands()
  Texts,       \* words the user may ask to complete
  Code         \* character codes, the order std::string compares by

VARIABLES
  text,     \* the word being completed
  first,    \* the word is the first on the line (start == 0)
  state,    \* the state argument of the next generator call
  p,        \* the static map iterator: index into MapOrder, N + 1 = end()
  offered,  \* the names returned so far, in order
  phase     \* "idle", "completing" (calls pending) or "done"

vars == <<text, first, state, p, offered, phase>>

\* std::string operator<: lexicographic, a proper prefix first.
RECURSIVE StrLess(_, _)
StrLess(s, t) ==
  IF s = <<>> THEN t # <<>>
  ELSE IF t = <<>> THEN FALSE
  ELSE IF Head(s) = Head(t) THEN StrLess(Tail(s), Tail(t))
  ELSE Code[Head(s)] < Code[Head(t)]

N == Cardinality(Registered)

\* The order a std::map iterator visits its keys in.
MapOrder ==
  [i \in 1..N |-> CHOOSE c \in Registered :
                    Cardinality({d \in Registered : StrLess(d, c)}) = i - 1]

\* string_search_and_replace(text, '_', '-').
Hyphenate(t) == [i \in DOMAIN t |-> IF t[i] = "_" THEN "-" ELSE t[i]]

\* strncmp(hyphenstr, cmd, len) == 0 with len == strlen(text).
PartiallyMatches(t, cmd) == IsPrefix(Hyphenate(t), cmd)

\* The while loop of one generator call from iterator position i: cmd is
\* taken at p, p is advanced, and cmd is compared only if p is not yet at
\* end().  Returns the name found (or "null") and the new iterator.
RECURSIVE Scan(_, _)
Scan(t, i) ==
  IF i > N THEN [ret |-> "null", p |-> i]
  ELSE IF i + 1 <= N /\ PartiallyMatches(t, MapOrder[i])
       THEN [ret |-> MapOrder[i], p |-> i + 1]
       ELSE Scan(t, i + 1)

\* ecasound_completion(text, start, end): for the first word of the line
\* completion_matches starts calling the generator; otherwise no matches.
Completion(t, start) ==
  /\ phase # "completing"
  /\ text' = t
  /\ first' = (start = 0)
  /\ state' = 0
  /\ offered' = <<>>
  /\ phase' = IF start = 0 THEN "completing" ELSE "done"
  /\ UNCHANGED p

\* ecasound_command_generator(text, state): state 0 resets the iterator;
\* a NULL result ends completion_matches' calls.
CommandGenerator ==
  /\ phase = "completing"
  /\ LET r == Scan(text, IF state = 0 THEN 1 ELSE p)
     IN /\ p' = r.p
        /\ IF r.ret = "null"
           THEN phase' = "done" /\ UNCHANGED offered
           ELSE offered' = Append(offered, r.ret) /\ UNCHANGED phase
  /\ state' = state + 1
  /\ UNCHANGED <<text, first>>

Init ==
  /\ text = <<>> /\ first = TRUE /\ state = 0 /\ p = 1
  /\ offered = <<>> /\ phase = "idle"

Next ==
  \/ \E t \in Texts, start \in {0, 1} : Completion(t, start)
  \/ CommandGenerator

Spec == Init /\ [][Next]_vars

-----------------------------------------------------------------------------
(* Properties.                                                             *)

\* When the generator has returned NULL for a first word, readline has been
\* offered every registered command the word partially matches ("Return
\* the next name which partially matches from the command list"), with
\* '_' typed for '-'.
CompletionOffersAllMatches ==
  (phase = "done" /\ first) =>
     Range(offered) = {c \in Registered : PartiallyMatches(text, c)}

=============================================================================
