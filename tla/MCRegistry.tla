----------------------------- MODULE MCRegistry ------------------------------
EXTENDS Registry

\* For the run about the selection: two products and two names, in pages of
\* one.  The first product has no team ("Unassigned" sorts after the team), the
\* search finds the second name, and the second product may be a favourite and
\* may not be there yet.
MCPair == 1 .. 2
MCTeamOf == <<2, 1>>
MCSecond == {2}
MCStored == {{}, {2}}
MCCatalogs == {<<1>>, <<1, 2>>}

\* For the run about the pages: three products and three names, no teams, no
\* favourites, and a catalog that has room for a name between its two.
MCTriple == 1 .. 3
MCNoTeams == <<0, 0, 0>>
MCFound == {2, 3}
MCNoStars == {{}}
MCGap == {<<1, 3>>}
=============================================================================
