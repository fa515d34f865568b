SPECIFICATION Spec
CONSTANTS
  Programs = {"fork1", "fork2", "fork3", "fork4", "fork4_prnum", "fork5", "fork_malloc_test",
    "fork_r6_of", "simpsh_v1", "simpsh_v2", "simpsh_v3", "fork2c", "forkbomb", "pdf_rdr",
    "smallbomb", "zombie", "execl_eg", "pdfrdr_exec", "exec_pid_poc", "predcs_name",
    "zombies_clear", "killer", "fork_test", "fork_printf_1", "fork_printf_2", "daemon_trad"}
  MaxProcs = 4
  MaxFailures = 1
  MaxJobs = 2
INVARIANTS FamilyKept 
PROPERTIES Progress
CHECK_DEADLOCK FALSE
