------------------------------- MODULE RulePath -------------------------------
(* The way of a rule through the program: it is evaluated, turned into       *)
(* instructions and loaded; later it is listed from the instructions the     *)
(* kernel holds, and the listing is what a user loads again.  The passes     *)
(* are parameters: Passes has those of the program for rules, and Declared   *)
(* those for tables, chains, sets and objects, which go the same way with    *)
(* attributes for instructions.                                              *)

CONSTANTS
  Rules,               \* the rules to look at: family -> rules
  PacketsOf(_, _),     \* the packets a rule of a family is tried on
  FormatsOf(_, _),     \* the formats it is listed in: "text" and "json"
  Evaluated(_, _),     \* family and statements -> statements, or an error
  Generated(_),        \* statements -> instructions
  Listed(_, _, _),     \* family, format and instructions -> a listing
  Read(_, _),          \* format and listing -> statements
  Says(_, _),          \* what statements say of a packet
  Acts(_, _)           \* what instructions do to it

VARIABLES
  family, rule,        \* the rule as it was given
  phase,               \* how far it has come
  evaluated,           \* its statements after evaluation, "err" why it was refused
  program,             \* the instructions the kernel holds
  format, listing,     \* the rule as listed from them, and how
  again                \* the instructions of the listing

vars == <<family, rule, phase, evaluated, program, format, listing, again>>

Nothing == [err |-> "none", stmts |-> <<>>]
NoProgram == [err |-> "none", out |-> <<>>, low |-> 0]
Init ==
  /\ family \in DOMAIN Rules /\ rule \in Rules[family]
  /\ phase = "given" /\ format = "text"
  /\ evaluated = Nothing /\ listing = Nothing
  /\ program = NoProgram /\ again = NoProgram

(* rule_evaluate() and what it may refuse.                                   *)
Evaluate ==
  /\ phase = "given"
  /\ evaluated' = Evaluated(family, rule)
  /\ phase' = IF evaluated'.err = "none" THEN "evaluated" ELSE "refused"
  /\ UNCHANGED <<family, rule, program, format, listing, again>>

(* netlink_linearize_rule() and the batch that loads it.                     *)
Generate ==
  /\ phase = "evaluated"
  /\ program' = Generated(evaluated.stmts)
  /\ phase' = "loaded"
  /\ UNCHANGED <<family, rule, evaluated, format, listing, again>>

ListRule ==
  /\ phase = "loaded"
  /\ \E how \in FormatsOf(family, rule) :
       /\ format' = how
       /\ listing' = Listed(family, how, program.out)
  /\ phase' = "listed"
  /\ UNCHANGED <<family, rule, evaluated, program, again>>

(* The listing given back to the program.                                    *)
Reload ==
  LET read == Read(format, listing.stmts)
      r == IF read.err = "none" THEN Evaluated(family, read.stmts) ELSE read
  IN  /\ phase = "listed" /\ listing.err = "none"
      /\ again' = IF r.err = "none" THEN Generated(r.stmts) ELSE [NoProgram EXCEPT !.err = r.err]
      /\ phase' = "reloaded"
      /\ UNCHANGED <<family, rule, evaluated, program, format, listing>>

Next == Evaluate \/ Generate \/ ListRule \/ Reload
Spec == Init /\ [][Next]_vars

----------------------------------------------------------------------------

(* No assertion fails and no BUG() is reached on the way, and every register *)
(* taken is given back.                                                      *)
NoBug ==
  /\ "BUG" \notin {evaluated.err, program.err, listing.err, again.err}
  /\ program.low = 0 /\ again.low = 0

(* The instructions do to every packet what the rule says.                   *)
SaysWhatItDoes ==
  phase = "loaded" => \A P \in PacketsOf(family, rule) : Acts(program.out, P) = Says(rule, P)

(* What is listed says what the kernel does.                                 *)
ListsWhatItDoes ==
  LET said == Read(format, listing.stmts)
  IN  phase = "listed" /\ said.err = "none" =>
        \A P \in PacketsOf(family, rule) : Says(said.stmts, P) = Acts(program.out, P)

(* A listing can be loaded again, and does the same.                         *)
LoadsAgain ==
  phase = "reloaded" =>
    /\ again.err = "none"
    /\ again.out # program.out =>
         \A P \in PacketsOf(family, rule) : Acts(again.out, P) = Acts(program.out, P)

(* It is then listed as it was.                                              *)
ListsTheSame == phase = "reloaded" /\ again.err = "none" => Listed(family, format, again.out) = listing
=============================================================================
