SPECIFICATION FairSpec
CONSTANTS
    MaxOffers = 1
    Threads = {t1, t2}
    s1 = s1
    s2 = s2
    Scans = {s1, s2}
    Hosts <- MCHosts
    Routes = {"here", "silent", "other"}
    MaxAddresses = 2
    Size <- MCSize
    MaxTransfer = 5
    Overhead = 2
INVARIANTS CodesAgree SentFits
PROPERTIES OneTransferPerOffer CallsReturn
CHECK_DEADLOCK FALSE
