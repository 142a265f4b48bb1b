\* One behaviour per program run; deadlock is checked: every program ends
\* in a state where only Ended stutters.
SPECIFICATION Spec
INVARIANT TypeOK SieveState PingThenPong ExecArgs EachMatchRunOnce
PROPERTY Terminates
