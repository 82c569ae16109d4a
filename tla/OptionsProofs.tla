--------------------------- MODULE OptionsProofs ---------------------------
(***************************************************************************)
(* parse_args decides as the command line means, for command lines of any  *)
(* length and any detected concurrency.                                    *)
(*                                                                         *)
(* The loop has consumed the first i arguments, which were good pairs, and *)
(* every option has the value of the last of them that names it.  So the   *)
(* argument behind them, if there is one, is the first that can be odd,    *)
(* and if there is none the values are those of the whole line.            *)
(***************************************************************************)
EXTENDS Options, Integers, TLAPS

(* The field f has the value of the last pair for it among the arguments   *)
(* consumed so far, or its default when there is none.                     *)
ConsumedValue(f) ==
  LET Names(k) == k \in Starts /\ k <= i /\ FieldOf[args[k]] = f
  IN  \/ options[f] = Defaults[f] /\ \A k \in Starts : ~Names(k)
      \/ \E k \in Starts :
            /\ Names(k)
            /\ options[f] = from_chars[args[k + 1]].value
            /\ \A j \in Starts : Names(j) => j <= k

(* The loop is between two pairs, and has consumed only good ones. *)
BetweenPairs ==
  /\ args \in Seq(Tokens)
  /\ i \in 0 .. Len(args) /\ i % 2 = 0
  /\ \A k \in Starts : k <= i => GoodPair(k)
  /\ options \in [Fields -> Nat]
  /\ \A f \in Fields : ConsumedValue(f)

(* Why the parser decided as it did. *)
DecidedBecause ==
  /\ action \in {"parsing", "ShowHelp", "ShowVersion", "Fail", "Run"}
  /\ action = "ShowHelp" => i < Len(args) /\ args[i + 1] \in Help
  /\ action = "ShowVersion" => i < Len(args) /\ args[i + 1] = "--version"
  /\ action = "Fail" =>
       \/ /\ i < Len(args) /\ ~GoodPair(i + 1)
          /\ args[i + 1] \notin Help \cup {"--version"}
       \/ i = Len(args) /\ (options["workers"] = 0 \/ options["queue_capacity"] = 0)
  /\ action = "Run" =>
       i = Len(args) /\ options["workers"] # 0 /\ options["queue_capacity"] # 0

ParserInv == BetweenPairs /\ DecidedBecause

-----------------------------------------------------------------------------
(* The tables *)

(* Only a text that is all number is accepted. *)
LEMMA WholeNumbers == \A text : parse_u64(text) <=> text \in {"0", "7"}
BY DEF parse_u64, from_chars

(* Every option sets a field, and none is help or version. *)
LEMMA OptionNames ==
  /\ \A a \in DOMAIN FieldOf : FieldOf[a] \in Fields
  /\ \A a \in DOMAIN FieldOf : a \notin Help \cup {"--version"}
BY DEF FieldOf, Fields, Help

(* What the loop checks before it consumes two arguments is what makes a  *)
(* pair good.                                                              *)
LEMMA PairIsGood ==
  ASSUME args \in Seq(Tokens), i \in Nat
  PROVE  PairNext <=> GoodPair(i + 1)
<1>1. (i + 1) + 1 = i + 2
  OBVIOUS
<1> QED
  BY <1>1, WholeNumbers DEF PairNext, GoodPair

-----------------------------------------------------------------------------
(* The loop *)

(* Nothing is consumed yet and every option has its default. *)
LEMMA ParserInit == ParseInit => ParserInv
<1> SUFFICES ASSUME ParseInit PROVE ParserInv
  OBVIOUS
<1>1. args \in Seq(Tokens)
  BY OptionAssumption DEF ParseInit
<1>2. i = 0 /\ options = Defaults /\ action = "parsing"
  BY DEF ParseInit
<1>3. Len(args) \in Nat
  BY <1>1
<1>4. \A k \in Starts : ~(k <= i)
  BY <1>2, <1>3 DEF Starts
<1>5. options \in [Fields -> Nat]
  BY <1>2, OptionAssumption DEF Defaults, Fields, default_worker_count
<1>6. \A f \in Fields : ConsumedValue(f)
  BY <1>2, <1>4 DEF ConsumedValue
<1>7. BetweenPairs
  BY <1>1, <1>2, <1>3, <1>4, <1>5, <1>6 DEF BetweenPairs
<1>8. DecidedBecause
  BY <1>2 DEF DecidedBecause
<1> QED
  BY <1>7, <1>8 DEF ParserInv

(* A step that only decides leaves what was consumed alone. *)
LEMMA DecisionKeepsPairs ==
  ASSUME BetweenPairs, UNCHANGED <<args, i, options>>
  PROVE  BetweenPairs'
<1>1. args' = args /\ i' = i /\ options' = options
  OBVIOUS
<1>2. Starts' = Starts
  BY <1>1 DEF Starts
<1>3. \A k : GoodPair(k)' <=> GoodPair(k)
  BY <1>1 DEF GoodPair
<1>4. ASSUME NEW f \in Fields PROVE ConsumedValue(f)'
  <2>1. ConsumedValue(f)
    BY DEF BetweenPairs
  <2> QED
    BY <1>1, <1>2, <2>1 DEF ConsumedValue
<1> QED
  BY <1>1, <1>2, <1>3, <1>4 DEF BetweenPairs

(* A pair: its option gets its value, which is the last one now; the other *)
(* options keep theirs.                                                    *)
LEMMA PairConsumed ==
  ASSUME BetweenPairs, SetOption
  PROVE  BetweenPairs'
<1>1. /\ args \in Seq(Tokens) /\ i \in 0 .. Len(args) /\ i % 2 = 0
      /\ \A k \in Starts : k <= i => GoodPair(k)
      /\ options \in [Fields -> Nat]
  BY DEF BetweenPairs
<1>2. Len(args) \in Nat
  BY <1>1
<1>3. args' = args /\ i' = i + 2
  BY DEF SetOption
<1>4. GoodPair(i + 1)
  BY <1>1, <1>2, PairIsGood DEF SetOption
<1>5. i + 2 <= Len(args) /\ args[i + 1] \in DOMAIN FieldOf
  BY <1>1, <1>2, <1>4 DEF GoodPair
<1>6. i' \in 0 .. Len(args) /\ i' % 2 = 0
  BY <1>1, <1>2, <1>3, <1>5
<1>7. Starts' = Starts /\ i + 1 \in Starts /\ Starts \subseteq Nat
  BY <1>1, <1>2, <1>3, <1>5 DEF Starts
<1>8. \A k \in Starts : k <= i' <=> k <= i \/ k = i + 1
  BY <1>1, <1>2, <1>3 DEF Starts
<1>9. \A k \in Starts : k <= i' => GoodPair(k)
  BY <1>1, <1>4, <1>8
<1>10. \A k : GoodPair(k)' <=> GoodPair(k)
  BY <1>3 DEF GoodPair
<1> DEFINE g == FieldOf[args[i + 1]]
           x == from_chars[args[i + 2]].value
<1>11. g \in Fields
  BY <1>5, OptionNames
<1>12. options' = [options EXCEPT ![g] = x]
  BY DEF SetOption
<1>13. options' \in [Fields -> Nat]
  <2>1. x \in Nat
    <3>1. args[i + 2] \in {"0", "7"}
      BY <1>1, <1>4 DEF GoodPair
    <3> QED
      BY <3>1 DEF from_chars
  <2> QED
    BY <1>1, <1>11, <1>12, <2>1
<1> HIDE DEF x
<1>14. ASSUME NEW f \in Fields PROVE ConsumedValue(f)'
  <2>1. CASE f = g
    <3>1. options'[f] = x
      BY <1>1, <1>12, <2>1
    <3>2. i + 1 \in Starts /\ i + 1 <= i' /\ FieldOf[args[i + 1]] = f
      BY <1>1, <1>3, <1>7, <2>1
    <3>3. x = from_chars[args[(i + 1) + 1]].value
      BY <1>1 DEF x
    <3>4. \A j \in Starts : j <= i' => j <= i + 1
      BY <1>1, <1>3, <1>7, <1>8
    <3> QED
      BY <1>3, <1>7, <3>1, <3>2, <3>3, <3>4 DEF ConsumedValue
  <2>2. CASE f # g
    <3>1. options'[f] = options[f]
      BY <1>1, <1>12, <2>2
    <3>2. \A k \in Starts : (k <= i' /\ FieldOf[args[k]] = f) <=> (k <= i /\ FieldOf[args[k]] = f)
      BY <1>8, <2>2
    <3>3. ConsumedValue(f)
      BY DEF BetweenPairs
    <3> HIDE DEF g
    <3> QED
      BY <1>3, <1>7, <3>1, <3>2, <3>3 DEF ConsumedValue
  <2> QED
    BY <2>1, <2>2
<1> QED
  BY <1>1, <1>3, <1>6, <1>7, <1>9, <1>10, <1>13, <1>14 DEF BetweenPairs

(* Each round of the loop keeps the invariant. *)
LEMMA ParserStep == ParserInv /\ [ParseNext]_vars => ParserInv'
<1> SUFFICES ASSUME ParserInv, [ParseNext]_vars PROVE ParserInv'
  OBVIOUS
<1> USE DEF ParserInv
<1>1. args \in Seq(Tokens) /\ i \in 0 .. Len(args) /\ Len(args) \in Nat /\ i \in Nat
  BY DEF BetweenPairs
<1>2. CASE ShowHelp
  <2>1. UNCHANGED <<args, i, options>> /\ action' = "ShowHelp"
    BY <1>2 DEF ShowHelp, Decide
  <2>2. DecidedBecause'
    BY <1>2, <2>1 DEF ShowHelp, More, DecidedBecause
  <2> QED
    BY <2>1, <2>2, DecisionKeepsPairs
<1>3. CASE ShowVersion
  <2>1. UNCHANGED <<args, i, options>> /\ action' = "ShowVersion"
    BY <1>3 DEF ShowVersion, Decide
  <2>2. DecidedBecause'
    BY <1>3, <2>1 DEF ShowVersion, More, DecidedBecause
  <2> QED
    BY <2>1, <2>2, DecisionKeepsPairs
<1>4. CASE BadArgument
  <2>1. UNCHANGED <<args, i, options>> /\ action' = "Fail"
    BY <1>4 DEF BadArgument, Decide
  <2>2. ~GoodPair(i + 1) /\ i < Len(args) /\ args[i + 1] \notin Help \cup {"--version"}
    BY <1>1, <1>4, PairIsGood DEF BadArgument, More
  <2>3. ~GoodPair(i + 1)'
    BY <2>1, <2>2 DEF GoodPair
  <2>4. DecidedBecause'
    BY <2>1, <2>2, <2>3 DEF DecidedBecause
  <2> QED
    BY <2>1, <2>4, DecisionKeepsPairs
<1>5. CASE SetOption
  <2>1. action' = "parsing"
    BY <1>5 DEF SetOption, More
  <2>2. DecidedBecause'
    BY <2>1 DEF DecidedBecause
  <2> QED
    BY <1>5, <2>2, PairConsumed
<1>6. CASE Validate
  <2>1. UNCHANGED <<args, i, options>> /\ i = Len(args)
    BY <1>6 DEF Validate, Decide
  <2>2. action' = IF options.workers = 0 \/ options.queue_capacity = 0 THEN "Fail" ELSE "Run"
    BY <1>6 DEF Validate, Decide
  <2>3. DecidedBecause'
    BY <2>1, <2>2 DEF DecidedBecause
  <2> QED
    BY <2>1, <2>3, DecisionKeepsPairs
<1>7. CASE UNCHANGED vars
  <2>1. UNCHANGED <<args, i, options>> /\ action' = action
    BY <1>7 DEF vars
  <2>2. GoodPair(i + 1)' <=> GoodPair(i + 1)
    BY <2>1 DEF GoodPair
  <2>3. DecidedBecause'
    BY <2>1, <2>2 DEF DecidedBecause
  <2> QED
    BY <2>1, <2>3, DecisionKeepsPairs
<1> QED
  BY <1>2, <1>3, <1>4, <1>5, <1>6, <1>7 DEF ParseNext

-----------------------------------------------------------------------------
(* The decision *)

(* The argument behind the consumed pairs, when it starts no good pair, is *)
(* the only one that can be called the first odd one.                      *)
LEMMA FirstOdd ==
  ASSUME BetweenPairs, i < Len(args), ~GoodPair(i + 1)
  PROVE  /\ i + 1 \in Starts /\ Odd(i + 1)
         /\ \A k \in Starts : Odd(k) => k = i + 1
<1>1. /\ args \in Seq(Tokens) /\ i \in 0 .. Len(args) /\ i % 2 = 0
      /\ \A k \in Starts : k <= i => GoodPair(k)
  BY DEF BetweenPairs
<1>2. Len(args) \in Nat
  BY <1>1
<1>3. i + 1 \in Starts /\ Starts \subseteq Nat
  BY <1>1, <1>2 DEF Starts
<1>4. \A j \in Starts : j < i + 1 => GoodPair(j)
  BY <1>1, <1>3
<1>5. Odd(i + 1)
  BY <1>3, <1>4 DEF Odd
<1>6. ASSUME NEW k \in Starts, Odd(k) PROVE k = i + 1
  <2>1. ~(k < i + 1)
    BY <1>4, <1>6 DEF Odd
  <2>2. ~(i + 1 < k)
    BY <1>3, <1>6 DEF Odd
  <2> QED
    BY <1>1, <1>3, <2>1, <2>2
<1> QED
  BY <1>3, <1>5, <1>6

(* When every argument was consumed, none is odd and each option has the   *)
(* last value given for it.                                                *)
LEMMA AllConsumed ==
  ASSUME BetweenPairs, i = Len(args)
  PROVE  /\ \A k \in Starts : ~Odd(k)
         /\ \A f \in Fields : options[f] = LastValue(f)
<1>1. /\ args \in Seq(Tokens)
      /\ \A k \in Starts : k <= i => GoodPair(k)
  BY DEF BetweenPairs
<1>2. Len(args) \in Nat
  BY <1>1
<1>3. \A k \in Starts : k \in Nat /\ k <= i
  BY <1>2 DEF Starts
<1>4. \A k \in Starts : ~Odd(k)
  BY <1>1, <1>3 DEF Odd
<1>5. ASSUME NEW f \in Fields PROVE options[f] = LastValue(f)
  <2> DEFINE given == {k \in Starts : FieldOf[args[k]] = f}
             IsLast(k) == \A j \in given : j <= k
  <2>1. LastValue(f) = IF given = {} THEN Defaults[f]
                       ELSE from_chars[args[(CHOOSE k \in given : IsLast(k)) + 1]].value
    BY DEF LastValue
  <2>2. ConsumedValue(f)
    BY DEF BetweenPairs
  <2>3. CASE options[f] = Defaults[f] /\ given = {}
    BY <2>1, <2>3
  <2>4. CASE \E k \in given : options[f] = from_chars[args[k + 1]].value /\ IsLast(k)
    <3>1. PICK k \in given : options[f] = from_chars[args[k + 1]].value /\ IsLast(k)
      BY <2>4
    <3>2. \A m \in given : m \in Nat
      BY <1>3
    <3>3. \A m \in given : IsLast(m) => m = k
      <4>1. ASSUME NEW m \in given, IsLast(m) PROVE m = k
        <5>1. m <= k /\ k <= m
          BY <3>1, <4>1
        <5> QED
          BY <3>2, <5>1
      <4> QED
        BY <4>1
    <3> HIDE DEF given, IsLast
    <3>4. (CHOOSE m \in given : IsLast(m)) = k
      BY <3>1, <3>3
    <3> QED
      BY <2>1, <3>1, <3>4
  <2>5. (options[f] = Defaults[f] /\ given = {})
          \/ \E k \in given : options[f] = from_chars[args[k + 1]].value /\ IsLast(k)
    BY <1>3, <2>2 DEF ConsumedValue
  <2> QED
    BY <2>3, <2>4, <2>5
<1> QED
  BY <1>4, <1>5

(* The invariant implies what the command line means. *)
LEMMA DecisionIsMeant == ParserInv => ParsesAsMeant
<1> SUFFICES ASSUME ParserInv, action # "parsing" PROVE ParsesAsMeant
  BY DEF ParsesAsMeant
<1> USE DEF ParserInv
<1>1. args \in Seq(Tokens) /\ i \in 0 .. Len(args) /\ Len(args) \in Nat
  BY DEF BetweenPairs
<1>2. CASE i < Len(args)
  <2>1. ~GoodPair(i + 1)
    BY <1>1, <1>2, OptionNames DEF DecidedBecause, GoodPair
  <2>2. /\ i + 1 \in Starts /\ Odd(i + 1)
        /\ \A k \in Starts : Odd(k) => k = i + 1
    BY <1>2, <2>1, FirstOdd
  <2>3. (CHOOSE k \in Starts : Odd(k)) = i + 1 /\ \E k \in Starts : Odd(k)
    BY <2>2
  <2>4. action = IF args[i + 1] \in Help THEN "ShowHelp"
                 ELSE IF args[i + 1] = "--version" THEN "ShowVersion" ELSE "Fail"
    BY <1>1, <1>2 DEF DecidedBecause, Help
  <2>5. ~AsksForHelp => args[i + 1] \notin Help
    BY <1>1, <1>2 DEF AsksForHelp
  <2> QED
    BY <2>3, <2>4, <2>5 DEF ParsesAsMeant
<1>3. CASE i = Len(args)
  <2>1. \A k \in Starts : ~Odd(k)
    BY <1>3, AllConsumed
  <2>2. \A f \in Fields : options[f] = LastValue(f)
    BY <1>3, AllConsumed
  <2>3. "workers" \in Fields /\ "queue_capacity" \in Fields
    BY DEF Fields
  <2>4. action = IF options["workers"] = 0 \/ options["queue_capacity"] = 0
                 THEN "Fail" ELSE "Run"
    BY <1>1, <1>3 DEF DecidedBecause
  <2>5. options = [f \in Fields |-> LastValue(f)]
    BY <2>2 DEF BetweenPairs
  <2>6. action = IF LastValue("workers") = 0 \/ LastValue("queue_capacity") = 0
                 THEN "Fail" ELSE "Run"
    BY <2>2, <2>3, <2>4
  <2> QED
    BY <2>1, <2>5, <2>6 DEF ParsesAsMeant
<1> QED
  BY <1>1, <1>2, <1>3

(* For every command line: parse_args consumes the good pairs in front,    *)
(* and what it does then is what the line means.  Help behind good pairs   *)
(* is given, a line that asks for no help is refused for its first         *)
(* mistake, a text that is not all number is one, the last value given for *)
(* an option wins, and no line with an odd argument is run.                *)
THEOREM ParserIsRight == ParseSpec => []ParsesAsMeant
BY ParserInit, ParserStep, DecisionIsMeant, PTL DEF ParseSpec
=============================================================================
