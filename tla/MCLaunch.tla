------------------------------ MODULE MCLaunch -------------------------------
EXTENDS Launch
CONSTANTS root, a, b, ac, acd, me, rival
\* root/a holds root/a/c, which holds a directory too deep to be looked at.
MCDirs == {root, a, b, ac, acd}
MCSubdirs == [d \in MCDirs |-> CASE d = root -> <<a, b>> [] d = a -> <<ac>> [] d = ac -> <<acd>> [] OTHER -> <<>>]
MCPathOrder == <<root, a, ac, acd, b>>
MCWriters == {me, rival}
MCInstalled == {0, 1}
MCMasks == {<<>>, <<0>>, <<1>>, <<0, 1>>}
MCGpuLists == {<<>>, <<0>>, <<1>>, <<0, 1>>, <<1, 0>>, <<2>>}
MCCounts == {0, 1, 2}
=============================================================================
