CONSTANTS
  Agents = {"a", "b"}
  Functions = {"a_post1", "a_post2", "a_read", "b_read"}
  AgentOf <- TwoAgents
  Posts = {"a_post1", "a_post2"}
  Reads = {"a_read", "b_read"}
  DataDeps <- PostPostRead
  Parts = {1, 2}
  MaxPosts = 1
  MaxIterations = 2
SPECIFICATION Spec
INVARIANTS
  ReadersSeeAll
  EmptyBetweenIterations
  BoardExclusive
  PostsConnected
