----------------------------- MODULE MCPureCode -----------------------------
(***************************************************************************)
(* The pure code of the program in the order main() uses it: parse_args on *)
(* every command line, then summarize on every run.  What a run records    *)
(* does not depend on the options it was given, so runs are recorded       *)
(* behind the empty command line only, which stands for all that are run.  *)
(***************************************************************************)
EXTENDS Options, RunSummary

recorded == <<samples, rejected, long>>

PureInit ==
  /\ ParseInit
  /\ Init
  /\ long => args = <<>>

PureNext ==
  \/ ParseNext /\ UNCHANGED recorded
  \/ action = "Run" /\ args = <<>> /\ Next /\ UNCHANGED vars

PureSpec == PureInit /\ [][PureNext]_<<vars, recorded>>
=============================================================================
