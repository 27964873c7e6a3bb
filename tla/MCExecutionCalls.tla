--------------------------- MODULE MCExecutionCalls ---------------------------
(* A small instance of ExecutionCalls for TLC.                               *)
EXTENDS ExecutionCalls

(* A file within every limit, its PNG twin, and files off by one limit each.  *)
Photo == [content |-> "image/jpeg", bytes |-> 2, width |-> 2, height |-> 3,
          frames |-> 1, decodes |-> TRUE]

SomeFiles == {Photo,
              [Photo EXCEPT !.content = "image/png"],
              [Photo EXCEPT !.height = 2],
              [Photo EXCEPT !.height = 4],
              [Photo EXCEPT !.bytes = 3],
              [Photo EXCEPT !.bytes = 1],
              [Photo EXCEPT !.frames = 2],
              [Photo EXCEPT !.decodes = FALSE],
              [Photo EXCEPT !.content = "text/html"]}

Formats == {"image/jpeg", "image/png"}

Retained == [found |-> TRUE, intact |-> TRUE, described |-> TRUE,
             profile |-> "valid", structured |-> TRUE]

SomeReferences == {Retained,
                   [Retained EXCEPT !.profile = "none", !.structured = FALSE],
                   [Retained EXCEPT !.profile = "none"],
                   [Retained EXCEPT !.profile = "invalid"],
                   [Retained EXCEPT !.intact = FALSE],
                   [Retained EXCEPT !.found = FALSE]}

(* Within the sum; beyond it; at and over the ratio of 20; a side that        *)
(* vanishes when scaled.                                                     *)
SomeImages == {<<6, 6>>, <<9, 9>>, <<13, 8>>, <<20, 1>>, <<1, 20>>, <<21, 1>>, <<40, 2>>}
===============================================================================
