----------------------------- MODULE MCRegionLoop -----------------------------
(* The designs the event loop is checked on: what their threads may do.       *)
EXTENDS RegionLoop, TLC

\* Anything: blocking and non-blocking writes, #0, #1, @, wait, $finish.
AnyWrite == {<<"none">>, <<"=", 0>>, <<"=", 1>>, <<"<=", 1>>}
AnyStop == {<<"delay", 0>>, <<"delay", 1>>, <<"at", "clk">>, <<"at", "a">>, <<"at", "b">>,
            <<"wait">>, <<"end">>, <<"finish">>}

\* A synchronous design: non-blocking assignments, no #0, no @ on a comb output.
SyncWrite == {<<"none">>, <<"<=", 0>>, <<"<=", 1>>}
SyncStop == AnyStop \ {<<"delay", 0>>, <<"at", "b">>}

\* Any design, with and without a clock, and a synchronous one in the debugger.
MCDesigns ==
  {[writes |-> AnyWrite, stops |-> AnyStop, periods |-> {0, 1}, breaks |-> {}, limit |-> 1],
   [writes |-> SyncWrite, stops |-> SyncStop, periods |-> {1}, breaks |-> {1}, limit |-> 3]}

\* Any design with a clock, over a longer time.
LongDesigns ==
  {[writes |-> AnyWrite, stops |-> AnyStop, periods |-> {1}, breaks |-> {}, limit |-> 2]}
=============================================================================
