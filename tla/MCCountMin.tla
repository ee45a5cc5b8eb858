----------------------------- MODULE MCCountMin -----------------------------
EXTENDS CountMin, TLC

Line(k, digits, nl) == [key |-> k, digits |-> digits, nl |-> nl]

Lines == {Line(k, d, TRUE) : k \in {0, 2}, d \in {<<2>>, <<1, 0>>}}
           \cup {Line(1, <<0, 1, 2>>, TRUE)}
Last == Lines \cup {Line(0, <<2>>, FALSE)}

\* Short files of any lines, and longer ones in which few values recur.
MCFiles ==
  {<<a, b>> : a \in Lines, b \in Last} \cup
  {<<a, b, b, a, c>> : a \in Lines, b \in Lines, c \in Last}

Setup(up, adapter, max, buf_size, recovery, freq, lost) ==
  [up |-> up, adapter |-> adapter, max |-> max, buf_size |-> buf_size,
   is_recovery |-> recovery, error_freq |-> freq, max_data_lost |-> lost]

MCSetups == {
  Setup(UpThreadTrace, "ram", 0, 100, FALSE, 1, 0),
  Setup(UpThreadTrace, "ram", 4, 14, FALSE, 1, 0),
  Setup(UpThreadTrace, "disk", 3, 0, FALSE, 1, 0),
  Setup(UpThreadTraceAFS, "disk", 0, 0, FALSE, 1, 0),
  Setup(UpThreadTraceAFS, "ram", 0, 100, TRUE, 1, 0),
  Setup(UpThreadTraceError, "ram", 0, 100, FALSE, 4, 1),
  Setup(UpThreadTraceError, "ram", 0, 100, FALSE, 2, 3)}

\* Hash functions by seed: rows that agree and rows that do not.
MCHashOf == (0 :> <<0, 1, 0>>) @@ (1 :> <<0, 0, 1>>) @@ (2 :> <<1, 0, 0>>) @@ (3 :> <<0, 1, 1>>)
MCHash == [n \in 0 .. 3 |-> [k \in 0 .. 2 |-> MCHashOf[n][k + 1]]]
=============================================================================
