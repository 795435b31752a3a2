------------------------------- MODULE Domain -------------------------------
(***************************************************************************)
(* The data every component handles: prompts, model outputs, perturbation  *)
(* families.  They are opaque; the oracles' and the cache's constants say  *)
(* what the code tells apart in them.                                      *)
(***************************************************************************)
CONSTANTS
  Prompts,   \* texts sent to the model
  Outputs,   \* texts the model answers (Execution.output_text)
  NoOutput,  \* no answer yet
  Families   \* lineage.perturbation_type values

ASSUME DomainAssumption == NoOutput \notin Outputs
=============================================================================
