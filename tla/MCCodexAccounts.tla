--------------------------- MODULE MCCodexAccounts ---------------------------
EXTENDS CodexAccounts

CONSTANTS ann, bob

\* Both accounts have a slot; what is removed or signed in to again is a start, too.
MCStarts == {<<ann, bob, NoAccount>>}

\* Nothing goes wrong, or one thing does, time and again.
MCWeathers == {{}} \union {{k} : k \in FaultKinds}

==============================================================================
