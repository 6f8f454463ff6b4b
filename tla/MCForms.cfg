\* Two tabs at the page of a reset link, the request that issues it, and two forms of
\* the profile page.
SPECIFICATION Spec
CONSTANTS
    l1 = l1
    t1 = t1
    t2 = t2
    Link = {l1}
    NoLink = NoLink
    Tab = {t1, t2}
    NoTab = NoTab
    MaxJobs = 2
    Used = {"profile", "password"}
    MaxOpen = 2
SYMMETRY Symmetry
INVARIANT TypeOK
INVARIANT OneLinkOnePassword
INVARIANT ResetPageTruthful
INVARIANT NoticesTruthful
