CONSTANTS
  Agents = {"a"}
  Functions = {"a_post", "a_read1", "a_read2"}
  AgentOf <- OneAgent
  Posts = {"a_post"}
  Reads = {"a_read1", "a_read2"}
  DataDeps <- ReadThenRead
  Parts = {1}
  MaxPosts = 1
  MaxIterations = 1
SPECIFICATION Spec
INVARIANTS
  NoUseAfterClear
