------------------------------ MODULE MCStorables ------------------------------
EXTENDS Storables, TLC

\* Two users stake; one locks, withdraws and stops delegating, both may delegate to a
\* third, who stakes nothing.
Staking ==
  {Call("deposit", "a", Zero, 1), Call("deposit", "b", Zero, 1), Call("withdraw", "a", Zero, 1),
   Call("lock", "a", Zero, 3), Call("delegate", "a", "c", 0), Call("delegate", "b", "c", 0),
   Call("delegate", "a", Zero, 0)}
\* One farms and pays the treasury.
Others ==
  {Call("farm", "a", "t1", 1), Call("unfarm", "a", "t1", 1),
   Call("pay", "a", "kek", 1)}
MCCalls == Staking \cup Others
===============================================================================
