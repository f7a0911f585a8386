SPECIFICATION SwarmSpec
CONSTANT MaxReports = 2
INVARIANT BlockedReportBlocks
