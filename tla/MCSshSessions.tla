----------------------------- MODULE MCSshSessions -----------------------------
EXTENDS SshSessions

\* A job on an OLT of each brand; a cut or a reactivation; a test of a router with
\* three OLTs, one of them of no brand.
MCJobs == {<<b>> : b \in Brands} \cup {<<"router", "router">>, <<"probe", "c-data", "sm", "v-sol">>}
=============================================================================
