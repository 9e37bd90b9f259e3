----------------------------- MODULE MC_Lifecycle -----------------------------
(* Instantiates Lifecycle with a bucket holding a log object and a data   *)
(* object, and one rule that expires logs after a day.                    *)
EXTENDS Lifecycle

MCObjects == << [dir |-> "data", name |-> "b"], [dir |-> "logs", name |-> "a"] >>

MCRules == << [enabled |-> TRUE, prefix |-> "logs", days |-> 1] >>

=============================================================================
