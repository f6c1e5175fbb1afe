--------------------------- MODULE MCFetchPipeline ---------------------------
(* Two jobs: one fetcher for the whole range and one for a part of it,      *)
(* undisturbed; and one fetcher of two blocks with failing calls, a broken  *)
(* subscription and a cancellation.                                         *)
EXTENDS FetchPipeline

Merged == [from |-> <<0, 1>>, to |-> <<3, 2>>, hasData |-> <<{0, 2}, {1, 2}>>,
           last |-> 3, latest |-> 2, failures |-> 0, disturbed |-> FALSE]
Disturbed == [from |-> <<0>>, to |-> <<1>>, hasData |-> <<{0, 1}>>,
              last |-> 1, latest |-> 0, failures |-> 2, disturbed |-> TRUE]
BothJobs == {Merged, Disturbed}
==============================================================================
