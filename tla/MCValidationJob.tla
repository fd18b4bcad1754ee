-------------------------- MODULE MCValidationJob --------------------------
EXTENDS ValidationJob

Line(kind, seq, stage, progress) ==
    [kind |-> kind, seq |-> seq, stage |-> stage, progress |-> progress]
Phase(n, progress) == Line("phase", n, n, progress)
Result(seq) == Line("result", seq, 0, 100)
Bad == Line("bad", 0, 0, 0)
Noise == Line("noise", 0, 0, 0)

(* A complete output with noise; without a result, with two, with more lines *)
(* than the queue holds, with a bad line in the middle and at the end, with  *)
(* a phase twice, out of order, left out, numbered wrongly, and with         *)
(* progress that falls.                                                      *)
Outputs ==
    LET one == Phase(1, 10)
        two == Phase(2, 50)
    IN  {<<one, Noise, two, Result(3)>>,
         <<one, two>>,
         <<one, two, Result(3), Result(4)>>,
         <<one, two, Result(3), Result(4), Bad>>,
         <<one, Bad, two, Result(3)>>,
         <<one, two, Result(3), Noise, Bad>>,
         <<one, one, two, Result(3)>>,
         <<one, Line("phase", 2, 1, 20), Line("phase", 3, 2, 50), Result(4)>>,
         <<Line("phase", 1, 2, 10), Line("phase", 2, 1, 20), Result(3)>>,
         <<one, Result(2), Line("phase", 3, 2, 100)>>,
         <<one, Line("phase", 3, 2, 50), Result(3)>>,
         <<Phase(1, 60), two, Result(3)>>}

(* One job and all that its child may write; one job while both threads take *)
(* the server down; two jobs, one of which may come late, while main does.   *)
MCUses ==
    {[jobs |-> 1, scripts |-> Outputs, down |-> {}],
     [jobs |-> 1, scripts |-> {<<Phase(1, 10)>>}, down |-> {"stop", "main"}],
     [jobs |-> 2, scripts |-> {<<>>}, down |-> {"main"}]}
=============================================================================
