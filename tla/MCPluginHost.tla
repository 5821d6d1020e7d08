---------------------------- MODULE MCPluginHost ----------------------------
EXTENDS PluginHostInv, TLC
CONSTANTS p1, p2, i1
OnePlugin == {p1}
TwoPlugins == {p1, p2}
OneInfo == {i1}
SameInfo == [p \in Plugins |-> i1]
\* Provider, and EnsurePlugins with all its flags.
Requested == {{"resource"}, {"analyzer", "language", "resource"}}
ProvidersOnly == {{"resource"}}
=============================================================================
