---------------------------- MODULE MCRunnerWindow ----------------------------
EXTENDS RunnerWindow

TwoSizes == {1, 2}

AllThemes == {"light", "dark", "missing"}
=============================================================================
