----------------------------- MODULE MCTaskAwait -----------------------------
(* Tasks of every kind the templates allow for a caller on the main        *)
(* thread, one thread for TO_MULTIWORKER, and programs that await at once, *)
(* later, and out of order.                                                *)
EXTENDS TaskAwait, TLC

CONSTANTS a, b, c, d, main, multi, none, t0, tm, tw, tx

MCExecuter == (a :> multi) @@ (b :> multi) @@ (c :> main) @@ (d :> main)
MCReturnTo == (a :> main) @@ (b :> multi) @@ (c :> multi) @@ (d :> main)
MCServiceOf == (tm :> main) @@ (tw :> multi) @@ (tx :> multi)

Do(o, t) == [op |-> o, task |-> t]
Temporary(t) == <<Do("create", t), Do("await", t), Do("destroy", t)>>

(* Two tasks created, then awaited, with x first. *)
Both(x, y, first, second) ==
  <<Do("create", x), Do("create", y), Do("await", first), Do("await", second),
    Do("destroy", y), Do("destroy", x)>>

MCPrograms ==
  {Temporary(p[1]) \o Temporary(p[2]) \o Temporary(p[3]) : p \in {<<a, b, c>>, <<b, c, a>>, <<c, a, b>>, <<c, b, a>>}}
    \cup {Both(a, b, a, b), Both(b, a, b, a), Both(a, c, a, c), Both(c, b, c, b)}
MCOutOfOrder == MCPrograms \cup {Both(a, b, b, a), Both(a, c, c, a), Both(d, b, b, d), Both(d, a, a, d)}

(* README.md:82, "f();//do coroutine": the thread that starts the program  *)
(* belongs to no service, and drops a Task<bool, TO_MAIN, TO_MAIN>.        *)
MCDroppedExecuter == c :> main
MCDroppedServiceOf == (t0 :> none) @@ (tm :> main)
MCDropped == {<<Do("create", c), Do("destroy", c)>>}
=============================================================================
