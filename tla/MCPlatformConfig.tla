-------------------------- MODULE MCPlatformConfig --------------------------
EXTENDS PlatformConfig, TLC

\* An acceptable change and a list that is empty once it is trimmed.
MCEdit == {<<"notes", List(<<Text("padded")>>)>>, <<"notes", List(<<Text("blank")>>)>>}

Tabs == Permutations(Tab)
=============================================================================
