------------------------------- MODULE Options -------------------------------
(***************************************************************************)
(* parse_args of src/cli/options.cpp.  The command line is a sequence of   *)
(* tokens; one step is one round of the loop, and the last step is the     *)
(* validation after it.  A number is a token with the answer from_chars    *)
(* gives for it.                                                           *)
(***************************************************************************)
EXTENDS Naturals, Sequences, FiniteSets

CONSTANTS
  MaxArgs,           \* the longest command line
  Detected           \* hardware_concurrency(), 0 when it cannot tell

ASSUME OptionAssumption == MaxArgs \in Nat /\ Detected \in Nat

Fields == {"workers", "tasks", "work", "queue_capacity", "fail_every"}

(* The option that sets each field. *)
FieldOf ==
  [a \in {"--workers", "--tasks", "--work", "--queue-capacity", "--fail-every"} |->
     CASE a = "--workers" -> "workers"
       [] a = "--tasks" -> "tasks"
       [] a = "--work" -> "work"
       [] a = "--queue-capacity" -> "queue_capacity"
       [] a = "--fail-every" -> "fail_every"]

(* std::from_chars for an unsigned number: was there a number that fits,   *)
(* was all of the text used, and its value.  The last three texts have a   *)
(* rubbish tail, a minus sign and too many digits.                         *)
from_chars ==
  [text \in {"0", "7", "12abc", "-1", "2^64"} |->
     CASE text = "0" -> [ok |-> TRUE, atEnd |-> TRUE, value |-> 0]
       [] text = "7" -> [ok |-> TRUE, atEnd |-> TRUE, value |-> 7]
       [] text = "12abc" -> [ok |-> TRUE, atEnd |-> FALSE, value |-> 12]
       [] text = "-1" -> [ok |-> FALSE, atEnd |-> FALSE, value |-> 0]
       [] text = "2^64" -> [ok |-> FALSE, atEnd |-> TRUE, value |-> 0]]

Help == {"-h", "--help"}
Tokens ==
  DOMAIN FieldOf \cup DOMAIN from_chars \cup Help
    \cup {"--version", "--bogus", "--", "stray", ""}

VARIABLES
  args,      \* the command line
  i,         \* how many arguments have been consumed
  options,   \* the Options being filled in
  action     \* ParseResult::Action, "parsing" until it is known

vars == <<args, i, options, action>>

default_worker_count == IF Detected = 0 THEN 1 ELSE Detected

Defaults ==
  [workers |-> default_worker_count, tasks |-> 1000, work |-> 1000,
   queue_capacity |-> 1024, fail_every |-> 0]

ParseInit ==
  /\ args \in UNION {[1 .. n -> Tokens] : n \in 0 .. MaxArgs}
  /\ i = 0
  /\ options = Defaults
  /\ action = "parsing"

\* Mutant of parse_u64: the end of the number is not compared with the end of
\* the text.
parse_u64_prefix(text) == text \in DOMAIN from_chars /\ from_chars[text].ok

(* Is the whole text a number?  Any text not listed starts with no digit. *)
parse_u64(text) ==
  text \in DOMAIN from_chars /\ from_chars[text].ok /\ from_chars[text].atEnd

Decide(result) == action' = result /\ UNCHANGED <<args, i, options>>

More == action = "parsing" /\ i < Len(args)

ShowHelp == More /\ args[i + 1] \in Help /\ Decide("ShowHelp")

ShowVersion == More /\ args[i + 1] = "--version" /\ Decide("ShowVersion")

(* The next two arguments are a known option and a number. *)
PairNext ==
  /\ args[i + 1] \in DOMAIN FieldOf
  /\ i + 2 <= Len(args)
  /\ parse_u64(args[i + 2])

(* Not an option, no value left, a value that is not a number, or an       *)
(* unknown option; only the message depends on which of them it is.        *)
BadArgument ==
  /\ More
  /\ args[i + 1] \notin Help \cup {"--version"}
  /\ ~PairNext
  /\ Decide("Fail")

SetOption ==
  /\ More
  /\ PairNext
  /\ options' = [options EXCEPT ![FieldOf[args[i + 1]]] = from_chars[args[i + 2]].value]
  /\ i' = i + 2
  /\ UNCHANGED <<args, action>>

Validate ==
  /\ action = "parsing" /\ i = Len(args)
  /\ Decide(IF options.workers = 0 \/ options.queue_capacity = 0 THEN "Fail" ELSE "Run")

ParseNext == ShowHelp \/ ShowVersion \/ BadArgument \/ SetOption \/ Validate

ParseSpec == ParseInit /\ [][ParseNext]_vars

-----------------------------------------------------------------------------
(* Properties *)

(* What a command line means, without the loop: options come in pairs, and *)
(* the first argument that is not the start of a good pair decides.        *)
GoodPair(k) ==
  /\ k + 1 <= Len(args)
  /\ args[k] \in DOMAIN FieldOf
  /\ args[k + 1] \in {"0", "7"}

Starts == {k \in 1 .. Len(args) : k % 2 = 1}

Odd(k) == k \in Starts /\ ~GoodPair(k) /\ \A j \in Starts : j < k => GoodPair(j)

LastValue(field) ==
  LET given == {k \in Starts : FieldOf[args[k]] = field}
      last == CHOOSE k \in given : \A j \in given : j <= k
  IN  IF given = {} THEN Defaults[field] ELSE from_chars[args[last + 1]].value

AsksForHelp == \E k \in 1 .. Len(args) : args[k] \in Help

(* The parser decides as this meaning says: a line with an odd argument is *)
(* never run; help behind good pairs is given, even when their values are  *)
(* ones the engine could not run with; a line that does not ask for help   *)
(* is refused for its first mistake; text after a number is a mistake; the *)
(* last value given for an option wins.  Whether a line that asks for help *)
(* behind a mistake should get it is left open here: HelpIsNeverAnError.   *)
ParsesAsMeant ==
  action # "parsing" =>
    IF \E k \in Starts : Odd(k)
    THEN LET k == CHOOSE k \in Starts : Odd(k)
         IN  /\ action # "Run"
             /\ args[k] \in Help => action = "ShowHelp"
             /\ ~AsksForHelp =>
                  action = IF args[k] = "--version" THEN "ShowVersion" ELSE "Fail"
    ELSE /\ options = [f \in Fields |-> LastValue(f)]
         /\ action = IF LastValue("workers") = 0 \/ LastValue("queue_capacity") = 0
                     THEN "Fail" ELSE "Run"

(* The claim of a unit test: who asks for help "while also having typed    *)
(* something wrong should get the help, not a complaint".  A help flag     *)
(* right behind two dashes does not count: it may be meant as the value of *)
(* that option.                                                            *)
Dashed == DOMAIN FieldOf \cup {"--help", "--version", "--bogus", "--"}

HelpIsNeverAnError ==
  action = "Fail" =>
    \A k \in 1 .. Len(args) : args[k] \in Help => k > 1 /\ args[k - 1] \in Dashed
=============================================================================
