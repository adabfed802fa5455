-------------------------- MODULE MCMessageDispatch --------------------------
(* Model-checking instance of MessageDispatch: the messages of a pool, well *)
(* formed and not. *)
EXTENDS MessageDispatch

Request(m, p)   == [Nothing EXCEPT !.method = m, !.params = p]
Answer(i, r, e) == [Nothing EXCEPT !.id = Num(i), !.result = r, !.error = e]
Failure(e)      == [Nothing EXCEPT !.error = e]

JobParams(id, clean, block) ==
  Array(<<Str(id), Str("header"), Str("seed"), Null, clean, block>>)

PoolMessages ==
  LET notify(p) == Request(Str("mining.notify"), p)
      target(p) == Request(Str("mining.set_target"), p)
  IN
  { notify(JobParams("j1", Bool(TRUE), Num(1))), notify(JobParams("j2", Bool(FALSE), Num(2))),
    notify(JobParams("j1", Absent, Num(2))), notify(JobParams("j2", Bool(TRUE), Num(0))),
    notify(JobParams(None, Bool(FALSE), Num(1))),
    notify(Array(<<Str("j1"), Str("header"), Str("seed"), Null, Bool(TRUE)>>)),
    notify(Array(<<Str("j1"), Num(7), Str("seed"), Null, Bool(TRUE), Num(1)>>)),
    notify(JobParams("j2", Bool(FALSE), Big(3))), notify(JobParams("j1", Bool(TRUE), Real)),
    notify(JobParams("j1", Bool(TRUE), Num(-1))),
    notify(Null), notify(Absent),
    target(Array(<<Str("t1")>>)), target(Array(<<Str("t2")>>)),
    target(Array(<<Num(3)>>)), target(Array(<<>>)),
    Request(Num(1), Null), Request(Str("mining.extranonce"), Null),
    Answer(1, Array(<<Null, Str("s1")>>), Null), Answer(1, Array(<<Null>>), Null),
    Answer(2, Array(<<Null, Str("s2")>>), Absent), Answer(2, Bool(TRUE), Null),
    Answer(4, Bool(TRUE), Null), Answer(4, Bool(FALSE), Null), Answer(4, Null, Null),
    Answer(4, Bool(FALSE), Array(<<Num(21), Str("stale"), Null>>)),
    Answer(4, Bool(FALSE), Array(<<Str("21"), Str("stale")>>)),
    Answer(4, Bool(FALSE), Array(<<Num(21)>>)),
    Answer(4, Bool(FALSE), Array(<<Real, Str("stale")>>)),
    [Answer(4, Null, Null) EXCEPT !.id = Null],
    [Answer(4, Bool(TRUE), Null) EXCEPT !.id = Big(3)],
    [Answer(1, Array(<<Null, Str("s1")>>), Null) EXCEPT !.id = Real],
    Failure(Array(<<Num(20), Str("other")>>)), Failure(Array(<<Null, Str("other")>>)),
    Failure(Err(Num(20), Str("other"))), Failure(Err(Num(20), Null)),
    Failure(Array(<<Big(3), Str("other")>>)), Failure(Err(Real, Str("other"))),
    Nothing }

TwoLines == { <<Open, Close>>, <<Open, Close, Open, Close>> }
=============================================================================
